---- MODULE Spec2Model ----
(***************************************************************************)
(* Sungrow monitor: the register reads of the Modbus link, the full sweep  *)
(* of the snapshot reader (Sungrow.ReadAllData) and the acquisition loop   *)
(* of the collector (Start / collect / CollectOnce / UpdateInverterConfig  *)
(* / Stop) with its concurrent readers.                                    *)
(*                                                                         *)
(* Two specifications share the definitions of the reads and of the sweep: *)
(*   SpecSweep  one ReadAllData call on one link, register by register,    *)
(*              the device failing any bounded subset of the reads;        *)
(*   Spec       the collector's goroutines interleaved, each register read *)
(*              taken under the link's mutex.                              *)
(***************************************************************************)
EXTENDS Integers, Sequences, FiniteSets, TLC

(***************************************************************************)
(* Bounds of the model.                                                    *)
(***************************************************************************)
\* reads of one sweep that the device may fail (SpecSweep)
MaxSweepFaults == 2
\* connects, reads, saves and publishes that may fail in one behaviour (Spec)
MaxFaults == 2
\* calls of collect, UpdateInverterConfig, CollectOnce, Stop, cancel,
\* GetLatestData and IsCollecting in one behaviour (Spec)
MaxCalls == 2

\* the device configurations (ip, port, slave id, timeout) a link can target
Configs == {"A", "B"}

(***************************************************************************)
(* Register map (internal/inverter/registers.go).                          *)
(***************************************************************************)
RegSerialNumber == 4989
RegDeviceTypeCode == 4999
RegNominalPower == 5000
RegOutputType == 5001
RegDailyEnergy == 5002
RegTotalEnergy == 5003
RegInsideTemperature == 5007
RegMPPT1Voltage == 5010
RegMPPT1Current == 5011
RegMPPT2Voltage == 5012
RegMPPT2Current == 5013
RegTotalDCPower == 5016
RegPhaseAVoltage == 5018
RegGridFrequency == 5021
RegPhaseACurrent == 5022
RegTotalActivePower == 5030
RegReactivePower == 5032
RegPowerFactor == 5034
RegRunningState == 5037
RegFaultCode == 5039

StateStop == 0
StateStandby == 32768
StateStartup == 4864
StateMPPT == 5120
StateFault == 5376
StatePowerLimit == 5632
StateShutdown == 5888

OutputSinglePhase == 0
Output3P4L == 1
Output3P3L == 2

\* the number of registers of the serial number string
SerialLength == 10

GetRunningStateString(state) ==
    CASE state = StateStop -> "Stop"
      [] state = StateStandby -> "Standby"
      [] state = StateStartup -> "Starting up"
      [] state = StateMPPT -> "MPPT"
      [] state = StateFault -> "Fault"
      [] state = StatePowerLimit -> "Power limiting"
      [] state = StateShutdown -> "Shutdown"
      [] OTHER -> "Unknown"

GetOutputTypeString(outputType) ==
    CASE outputType = OutputSinglePhase -> "Single Phase"
      [] outputType = Output3P4L -> "Three Phase 4 Lines"
      [] outputType = Output3P3L -> "Three Phase 3 Lines"
      [] OTHER -> "Unknown"

(***************************************************************************)
(* The device: the 16-bit word an inverter of configuration cfg holds at   *)
(* an input register address.  The serial number registers hold "SN" and a *)
(* digit, padded with NUL bytes; the other registers hold distinct nonzero *)
(* words, so that a decoded value differs from the zero default; the       *)
(* temperature and the reactive power are negative.                        *)
(***************************************************************************)
CfgDigit(cfg) == IF cfg = "A" THEN 49 ELSE 50

DeviceWord(cfg, a) ==
    IF a = RegSerialNumber THEN 83 * 256 + 78
    ELSE IF a = RegSerialNumber + 1 THEN CfgDigit(cfg) * 256
    ELSE IF a > RegSerialNumber + 1 /\ a < RegSerialNumber + SerialLength THEN 0
    ELSE IF a = RegRunningState THEN StateMPPT
    ELSE IF a = RegOutputType THEN Output3P4L
    ELSE IF a = RegInsideTemperature THEN 65536 - CfgDigit(cfg)
    ELSE IF a = RegReactivePower + 1 THEN 65535
    ELSE a - 4000 + CfgDigit(cfg)

(***************************************************************************)
(* internal/modbus/client.go: the reads of a link.  A link is a record     *)
(* [cfg, client]: client is TRUE while c.client is not nil.  devOk is the  *)
(* device's answer to the request: FALSE when ReadRegisters fails.         *)
(***************************************************************************)
ReadFailed == [err |-> TRUE, regs |-> << >>]

ReadInputRegisters(lk, address, quantity, devOk) ==
    IF ~lk.client THEN ReadFailed
    ELSE IF ~devOk THEN ReadFailed
    ELSE [err |-> FALSE,
          regs |-> [k \in 1..quantity |-> DeviceWord(lk.cfg, address + k - 1)]]

\* int16(w) and int32(v): the two's-complement reinterpretation
ToInt16(w) == IF w >= 32768 THEN w - 65536 ELSE w

\* a uint32 is kept as its two 16-bit halves: its value is lo + 65536 * hi
U32(low, high) == [hi |-> high, lo |-> low]

U32Zero == U32(0, 0)

ToInt32(v) ==
    IF v.hi >= 32768 THEN (v.hi - 65536) * 65536 + v.lo ELSE v.hi * 65536 + v.lo

ReadUint16(lk, address, devOk) ==
    LET r == ReadInputRegisters(lk, address, 1, devOk)
    IN  IF r.err THEN [err |-> TRUE, val |-> 0]
        ELSE [err |-> FALSE, val |-> r.regs[1]]

ReadInt16(lk, address, devOk) ==
    LET r == ReadInputRegisters(lk, address, 1, devOk)
    IN  IF r.err THEN [err |-> TRUE, val |-> 0]
        ELSE [err |-> FALSE, val |-> ToInt16(r.regs[1])]

\* faulty variant: the high word first
Uint32HighWordFirst(regs) == U32(regs[2], regs[1])

\* low word first: uint32(regs[0]) | uint32(regs[1])<<16
Uint32Of(regs) == U32(regs[1], regs[2])

ReadUint32(lk, address, devOk) ==
    LET r == ReadInputRegisters(lk, address, 2, devOk)
    IN  IF r.err THEN [err |-> TRUE, val |-> U32Zero]
        ELSE [err |-> FALSE, val |-> Uint32Of(r.regs)]

ReadInt32(lk, address, devOk) ==
    LET r == ReadUint32(lk, address, devOk)
    IN  IF r.err THEN [err |-> TRUE, val |-> 0]
        ELSE [err |-> FALSE, val |-> ToInt32(r.val)]

\* the bytes of the words, high byte first: byte(reg>>8), byte(reg&0xFF)
WordBytes(regs) ==
    [k \in 1..(2 * Len(regs)) |->
        IF k % 2 = 1 THEN regs[(k + 1) \div 2] \div 256 ELSE regs[k \div 2] % 256]

\* faulty variant: every NUL byte removed
StripEveryNul(bytes) == SelectSeq(bytes, LAMBDA b : b # 0)

\* the NUL bytes at the end removed: what is kept ends at the last byte
\* that is not 0
StripNul(bytes) ==
    LET kept == {k \in 1..Len(bytes) : bytes[k] # 0}
        n == IF kept = {} THEN 0 ELSE CHOOSE k \in kept : \A j \in kept : j <= k
    IN  SubSeq(bytes, 1, n)

\* a string is the sequence of its bytes
ReadString(lk, address, length, devOk) ==
    LET r == ReadInputRegisters(lk, address, length, devOk)
    IN  IF r.err THEN [err |-> TRUE, val |-> << >>]
        ELSE [err |-> FALSE, val |-> StripNul(WordBytes(r.regs))]

(***************************************************************************)
(* internal/inverter/sungrow.go: InverterData and ReadAllData.             *)
(* float64(x) * 0.1 is kept exact as the pair of x and the divisor 10.     *)
(***************************************************************************)
Scaled(x, divisor) == [num |-> x, div |-> divisor]

ZeroFloat == [num |-> 0, div |-> 1]

\* &InverterData{Timestamp: time.Now(), IsOnline: false, Errors: make([]string, 0)}
NewInverterData(now) ==
    [Timestamp |-> now, SerialNumber |-> << >>, DeviceTypeCode |-> 0,
     NominalPower |-> ZeroFloat, OutputType |-> "",
     DailyEnergy |-> ZeroFloat, TotalEnergy |-> ZeroFloat,
     Temperature |-> ZeroFloat,
     MPPT1Voltage |-> ZeroFloat, MPPT1Current |-> ZeroFloat,
     MPPT2Voltage |-> ZeroFloat, MPPT2Current |-> ZeroFloat,
     TotalDCPower |-> U32Zero,
     GridVoltage |-> ZeroFloat, GridFrequency |-> ZeroFloat,
     GridCurrent |-> ZeroFloat,
     TotalActivePower |-> U32Zero, ReactivePower |-> 0, PowerFactor |-> ZeroFloat,
     RunningState |-> 0, RunningStateString |-> "", FaultCode |-> 0,
     IsOnline |-> FALSE, Errors |-> << >>]

\* the reads of a sweep in the order of the code: 1 is the probe
NumFields == 20

FieldIds == 1..NumFields

NonProbe == 2..NumFields

\* the read that field i issues on link lk
FieldRead(i, lk, devOk) ==
    CASE i = 1 -> ReadString(lk, RegSerialNumber, SerialLength, devOk)
      [] i = 2 -> ReadUint16(lk, RegDeviceTypeCode, devOk)
      [] i = 3 -> ReadUint16(lk, RegNominalPower, devOk)
      [] i = 4 -> ReadUint16(lk, RegOutputType, devOk)
      [] i = 5 -> ReadUint16(lk, RegDailyEnergy, devOk)
      [] i = 6 -> ReadUint32(lk, RegTotalEnergy, devOk)
      [] i = 7 -> ReadInt16(lk, RegInsideTemperature, devOk)
      [] i = 8 -> ReadUint16(lk, RegMPPT1Voltage, devOk)
      [] i = 9 -> ReadUint16(lk, RegMPPT1Current, devOk)
      [] i = 10 -> ReadUint16(lk, RegMPPT2Voltage, devOk)
      [] i = 11 -> ReadUint16(lk, RegMPPT2Current, devOk)
      [] i = 12 -> ReadUint32(lk, RegTotalDCPower, devOk)
      [] i = 13 -> ReadUint16(lk, RegPhaseAVoltage, devOk)
      [] i = 14 -> ReadUint16(lk, RegGridFrequency, devOk)
      [] i = 15 -> ReadUint16(lk, RegPhaseACurrent, devOk)
      [] i = 16 -> ReadUint32(lk, RegTotalActivePower, devOk)
      [] i = 17 -> ReadInt32(lk, RegReactivePower, devOk)
      [] i = 18 -> ReadInt16(lk, RegPowerFactor, devOk)
      [] i = 19 -> ReadUint16(lk, RegRunningState, devOk)
      [] i = 20 -> ReadUint16(lk, RegFaultCode, devOk)

\* what ReadAllData does with the result r of the read of field i
FieldStore(i, d, r) ==
    CASE i = 1 ->
           IF r.err THEN d
           ELSE [d EXCEPT !.SerialNumber = r.val, !.IsOnline = TRUE]
      [] i = 2 ->
           IF ~r.err THEN [d EXCEPT !.DeviceTypeCode = r.val]
           ELSE [d EXCEPT !.Errors = Append(@, "device_type")]
      [] i = 3 ->
           IF ~r.err THEN [d EXCEPT !.NominalPower = Scaled(r.val, 10)]
           ELSE [d EXCEPT !.Errors = Append(@, "nominal_power")]
      [] i = 4 ->
           IF ~r.err THEN [d EXCEPT !.OutputType = GetOutputTypeString(r.val)]
           ELSE [d EXCEPT !.OutputType = "Single Phase"]
      [] i = 5 ->
           IF ~r.err THEN [d EXCEPT !.DailyEnergy = Scaled(r.val, 10)]
           ELSE [d EXCEPT !.Errors = Append(@, "daily_energy")]
      [] i = 6 ->
           IF ~r.err THEN [d EXCEPT !.TotalEnergy = Scaled(r.val, 10)]
           ELSE [d EXCEPT !.Errors = Append(@, "total_energy")]
      [] i = 7 ->
           IF ~r.err THEN [d EXCEPT !.Temperature = Scaled(r.val, 10)]
           ELSE [d EXCEPT !.Errors = Append(@, "temperature")]
      [] i = 8 ->
           IF ~r.err THEN [d EXCEPT !.MPPT1Voltage = Scaled(r.val, 10)] ELSE d
      [] i = 9 ->
           IF ~r.err THEN [d EXCEPT !.MPPT1Current = Scaled(r.val, 100)] ELSE d
      [] i = 10 ->
           IF ~r.err THEN [d EXCEPT !.MPPT2Voltage = Scaled(r.val, 10)] ELSE d
      [] i = 11 ->
           IF ~r.err THEN [d EXCEPT !.MPPT2Current = Scaled(r.val, 100)] ELSE d
      [] i = 12 ->
           IF ~r.err THEN [d EXCEPT !.TotalDCPower = r.val] ELSE d
      [] i = 13 ->
           IF ~r.err THEN [d EXCEPT !.GridVoltage = Scaled(r.val, 10)] ELSE d
      [] i = 14 ->
           IF ~r.err THEN [d EXCEPT !.GridFrequency = Scaled(r.val, 10)] ELSE d
      [] i = 15 ->
           IF ~r.err THEN [d EXCEPT !.GridCurrent = Scaled(r.val, 10)] ELSE d
      [] i = 16 ->
           IF ~r.err THEN [d EXCEPT !.TotalActivePower = r.val] ELSE d
      [] i = 17 ->
           IF ~r.err THEN [d EXCEPT !.ReactivePower = r.val] ELSE d
      [] i = 18 ->
           IF ~r.err THEN [d EXCEPT !.PowerFactor = Scaled(r.val, 1000)] ELSE d
      [] i = 19 ->
           IF ~r.err
           THEN [d EXCEPT !.RunningState = r.val,
                          !.RunningStateString = GetRunningStateString(r.val)]
           ELSE [d EXCEPT !.RunningStateString = "Unknown"]
      [] i = 20 ->
           IF ~r.err THEN [d EXCEPT !.FaultCode = r.val] ELSE d

\* position of ReadAllData after the last field: it has returned
Returned == NumFields + 1

\* faulty variant: the sweep goes on after a failed probe
AfterProbeGoesOn(err) == 2

\* where ReadAllData goes after the probe: `return data, err` when it failed
AfterProbe(err) == IF err THEN Returned ELSE 2

\* faulty variant: a failed register read ends the sweep
AfterFieldAborts(i, err) == IF err THEN Returned ELSE i + 1

\* where ReadAllData goes after the read of field i in 2..20: always on
AfterField(i, err) == i + 1

\* the error ReadAllData returns: the probe's, and nil after the last field
SweepError(i, err) == i = 1 /\ err


(***************************************************************************)
(* State.                                                                  *)
(***************************************************************************)
VARIABLES
    \* SpecSweep: one ReadAllData call
    rdLink,        \* the link s.client of the reader
    rdData,        \* the InverterData under construction
    rdPos,         \* 0 not called, i the read of field i is next, Returned
    rdErr,         \* the error ReadAllData returned
    rdAttempts,    \* how often each field's register has been requested
    rdFailed,      \* the fields whose read failed
    \* Spec: the collector
    c_client,      \* Collector.client, the id of a link
    c_sungrow,     \* Collector.sungrow, as the id of the link it reads
    latestData,    \* Collector.latestData, a pointer: 0 is nil
    isCollecting,  \* Collector.isCollecting
    enabled,       \* Collector.enabled
    muW, muR,      \* Collector.mu: the writer holding it, the readers
    links,         \* the modbus Clients ever made, by id
    nextLink,      \* the id NewClient gives next
    heap,          \* the InverterData objects, by pointer
    calls,         \* calls made so far; time.Now() is counted in them
    dbOpen,        \* the database handle is open
    pubOpen,       \* the MQTT publisher is connected
    faults,        \* device, database and broker failures so far
    cancelled,     \* ctx.Done() is closed
    stopped,       \* Stop has been called
    pc,            \* where each goroutine stands
    data,          \* each goroutine's local `data` pointer
    lClient,       \* collect's local copy of c.client
    lSungrow,      \* collect's local copy of c.sungrow
    tick,          \* what the current call of collect has done so far
    uNew, uOld,    \* UpdateInverterConfig's newClient and oldClient
    uSnap,         \* the collector's fields when UpdateInverterConfig was called
    uRet,          \* what the last UpdateInverterConfig returned: "ok",
                   \* "errConnect" (failed to connect with new configuration),
                   \* "errRead" (failed to read data with new configuration)
    oClient,       \* the client CollectOnce calls Connect on
    oSungrow,      \* the reader CollectOnce's sweep runs on
    oRet,          \* what the last CollectOnce returned
    observed,      \* the pointer the last GetLatestData returned
    seenCollecting,\* what the last IsCollecting returned
    \* SpecLink: one modbus Client and the goroutines that call it
    cl_client,     \* Client.client: 0 is nil, else the channel it points to
    cl_mu,         \* Client.mu: the caller holding it, or "none"
    channels,      \* the channels that are open (opened and not closed)
    nextChannel,   \* the channel the next successful Open makes
    inflight,      \* the requests sent on a channel and not yet answered
    cpc,           \* where each caller stands in its call
    cop,           \* the method each caller is in
    ctop,          \* the method each caller called: Reconnect calls two
    cres,          \* what the method returned
    cnew,          \* the channel the call opened, 0 when it opened none
    cdone,         \* the calls each caller has made
    \* SpecDecode: one register reply and the decoder applied to it
    dRegs,         \* the words ReadInputRegisters returned
    dOut,          \* what the decoder did with them
    \* SpecInsight: one request to productionInsightsHandler
    iNow,          \* time.Now() of the request
    iLatest,       \* GetLatestData(): NoLatest or the reading's TotalActivePower
    iRows,         \* the rows of inverter_readings
    iWeather,      \* what getWeather returns: NoWeather is nil
    iPayload,      \* the OpenWeather response iWeather was made from
    iResp,         \* the response written, NoResp before it
    \* SpecWeather: the weather fields of the Server
    wCfg,          \* s.config.Weather: Enabled and Provider
    weather,       \* s.weather, NoProvider is nil
    weatherData,   \* s.weatherData, NoData is nil
    weatherAt,     \* s.weatherAt
    weatherMu,     \* the holder of s.weatherMu or "none"
    wClock,        \* time.Now()
    wpc,           \* where each request is
    gNow,          \* the now of each insight request
    gRet,          \* what getWeather returned to it
    gCalled,       \* how its call of s.weather.Get ended, "no" without one
    uCfg,          \* cfg of initWeatherProvider
    wCount,        \* providers made, snapshots fetched and the budgets
    \* SpecConfig: the inverter configuration of the server and the collector
    hActive,       \* the parameters of the collector's c.client
    hConfig,       \* s.config.Inverter
    hFile,         \* the inverter section of the configuration file
    hpc,           \* where each update request is
    hReq,          \* its body
    hResp,         \* the status it was answered with, 0 before
    hCount,        \* the requests so far
    \* SpecLocks: the locks of the collector, the links and the server
    lkW,           \* the holder of each lock (the writer of a RWMutex)
    lkR,           \* the readers inside each RWMutex
    lkPend,        \* the writers that called Lock and are not inside
    lkRq,          \* the readers queued behind them
    lpath,         \* the lock operations of the call each process is in
    lpc            \* the next of them, 0 between calls

sweepVars == << rdLink, rdData, rdPos, rdErr, rdAttempts, rdFailed >>

collVars == << c_client, c_sungrow, latestData, isCollecting, enabled, muW, muR,
               links, nextLink, heap, calls, dbOpen, pubOpen, faults,
               cancelled, stopped, pc, data, lClient, lSungrow, tick,
               uNew, uOld, uSnap, uRet, oClient, oSungrow, oRet,
               observed, seenCollecting >>

clVars == << cl_client, cl_mu, channels, nextChannel, inflight, cpc, cop, ctop,
            cres, cnew, cdone >>

decVars == << dRegs, dOut >>

insVars == << iNow, iLatest, iRows, iWeather, iPayload, iResp >>

wxVars == << wCfg, weather, weatherData, weatherAt, weatherMu, wClock, wpc,
            gNow, gRet, gCalled, uCfg, wCount >>

cfVars == << hActive, hConfig, hFile, hpc, hReq, hResp, hCount >>

lkVars == << lkW, lkR, lkPend, lkRq, lpath, lpc >>

\* the variables of the specifications of the server
srvVars == << wxVars, cfVars, lkVars >>

\* the variables of the specifications of single functions and of the server
fnVars == << decVars, insVars, srvVars >>

vars == << sweepVars, collVars, clVars, fnVars >>

\* all variables but those of one specification
exceptDec == << sweepVars, collVars, clVars, insVars, srvVars >>

exceptIns == << sweepVars, collVars, clVars, decVars, srvVars >>

exceptWx == << sweepVars, collVars, clVars, decVars, insVars, cfVars, lkVars >>

exceptCf == << sweepVars, collVars, clVars, decVars, insVars, wxVars, lkVars >>

exceptLk == << sweepVars, collVars, clVars, decVars, insVars, wxVars, cfVars >>

\* no decoder has run
NoOut == [kind |-> "none", want |-> 0, st |-> "none"]

\* GetLatestData() returned nil
NoLatest == -1

\* a nil *weather.Data
NoWeather == [provider |-> "none"]

\* no response has been written
NoResp == [code |-> 0]

\* the snapshot is not one of the OpenWeather client
NoPayload == [Dt |-> 0]

\* no register reply is decoded on its own
DecIdle ==
    /\ dRegs = << >>
    /\ dOut = NoOut

\* no insight is requested
InsIdle ==
    /\ iNow = 0
    /\ iLatest = NoLatest
    /\ iRows = << >>
    /\ iWeather = NoWeather
    /\ iPayload = NoPayload
    /\ iResp = NoResp

\* no request of the weather is served
WxIdle ==
    /\ wCfg = [Enabled |-> FALSE, Provider |-> << >>]
    /\ weather = [id |-> 0, kind |-> "none"]
    /\ weatherData = [by |-> 0, n |-> 0]
    /\ weatherAt = 0
    /\ weatherMu = "none"
    /\ wClock = 0
    /\ wpc = << >>
    /\ gNow = << >>
    /\ gRet = << >>
    /\ gCalled = << >>
    /\ uCfg = [Enabled |-> FALSE, Provider |-> << >>]
    /\ wCount = << >>

\* no inverter configuration update is served
CfIdle ==
    /\ hActive = [IP |-> ""]
    /\ hConfig = [IP |-> ""]
    /\ hFile = [IP |-> ""]
    /\ hpc = << >>
    /\ hReq = << >>
    /\ hResp = << >>
    /\ hCount = 0

\* no lock is looked at
LkIdle ==
    /\ lkW = << >>
    /\ lkR = << >>
    /\ lkPend = << >>
    /\ lkRq = << >>
    /\ lpath = << >>
    /\ lpc = << >>

SrvIdle == WxIdle /\ CfIdle /\ LkIdle

\* the specifications of the collector, the sweep and the link
FnIdle == DecIdle /\ InsIdle /\ SrvIdle

(***************************************************************************)
(* SpecSweep: Sungrow.ReadAllData on one link, one register read a step.   *)
(***************************************************************************)
SweepInit ==
    /\ rdLink \in [cfg : Configs, client : BOOLEAN]
    /\ rdData = NewInverterData(0)
    /\ rdPos = 0
    /\ rdErr = FALSE
    /\ rdAttempts = [i \in FieldIds |-> 0]
    /\ rdFailed = {}

\* the answers the device may give to the next request of the sweep
SweepAnswers == IF Cardinality(rdFailed) < MaxSweepFaults THEN BOOLEAN ELSE {TRUE}

\* data := &InverterData{...}
SweepCall ==
    /\ rdPos = 0
    /\ rdData' = NewInverterData(1)
    /\ rdPos' = 1
    /\ UNCHANGED << rdLink, rdErr, rdAttempts, rdFailed, collVars, clVars, fnVars >>

\* serial, err := s.client.ReadString(RegSerialNumber, 10): the probe
SweepProbe ==
    /\ rdPos = 1
    /\ \E devOk \in SweepAnswers :
         LET r == FieldRead(1, rdLink, devOk)
         IN  /\ rdData' = FieldStore(1, rdData, r)
             /\ rdPos' = AfterProbe(r.err)
             /\ rdErr' = SweepError(1, r.err)
             /\ rdAttempts' = [rdAttempts EXCEPT ![1] = @ + 1]
             /\ rdFailed' = IF r.err THEN rdFailed \cup {1} ELSE rdFailed
    /\ UNCHANGED << rdLink, collVars, clVars, fnVars >>

\* the read of one of the other registers
SweepField ==
    /\ rdPos \in NonProbe
    /\ \E devOk \in SweepAnswers :
         LET r == FieldRead(rdPos, rdLink, devOk)
         IN  /\ rdData' = FieldStore(rdPos, rdData, r)
             /\ rdPos' = AfterField(rdPos, r.err)
             /\ rdErr' = SweepError(rdPos, r.err)
             /\ rdAttempts' = [rdAttempts EXCEPT ![rdPos] = @ + 1]
             /\ rdFailed' = IF r.err THEN rdFailed \cup {rdPos} ELSE rdFailed
    /\ UNCHANGED << rdLink, collVars, clVars, fnVars >>


SweepNext == SweepCall \/ SweepProbe \/ SweepField

(***************************************************************************)
(* Spec: the collector (internal/collector/collector.go).                  *)
(***************************************************************************)
Procs == {"loop", "upd", "once"}

\* the link made at start-up and one for every UpdateInverterConfig
LinkIds == 1..(1 + MaxCalls)

\* room for the objects that the pointers of the model can reach at one time
HeapIds == 1..(Cardinality(Procs) + 2)

\* a pointer no sweep has allocated, or whose object was dropped
NoReading == NewInverterData(0)

NoLink == [cfg |-> "A", client |-> FALSE]

\* what a call of collect has done: n and waits count the calls of collect
\* and the ticks taken from the ticker since Start; saved and sent are what
\* db.SaveReading and publisher.Publish returned ("none": not called)
NoTick == [sweeps |-> 0, reconnects |-> 0, firstErr |-> FALSE, lastErr |-> FALSE,
           n |-> 0, waits |-> 0, saved |-> "none", sent |-> "none"]

NoSnap == [client |-> 0, sungrow |-> 0, latest |-> 0, link |-> NoLink]

\* the answers a device, the database or the broker may give to a request
Answers == IF faults < MaxFaults THEN BOOLEAN ELSE {TRUE}

\* sync.RWMutex: RLock waits for the writer, Lock for the writer and the readers
CanRLock == muW = "none"

CanLock == muW = "none" /\ muR = {}

\* the objects no pointer reaches are dropped
Gc(h, ld, obs, dt) ==
    [i \in HeapIds |->
        IF i = ld \/ i = obs \/ \E p \in Procs : dt[p] = i THEN h[i] ELSE NoReading]

\* faulty variant: the sweeps reuse the object that is published
AllocReuses(h) ==
    IF latestData # 0 THEN latestData
    ELSE CHOOSE i \in HeapIds : h[i] = NoReading /\ \A j \in 1..(i - 1) : h[j] # NoReading

\* a pointer to a new object
Alloc(h) == CHOOSE i \in HeapIds : h[i] = NoReading /\ \A j \in 1..(i - 1) : h[j] # NoReading

\* a call may be made
CanCall == calls < MaxCalls

\* modbus.Client.Connect on link lk, the channel opening (ok) or not
Connect(lk, ok) ==
    IF lk.client THEN [err |-> FALSE, link |-> lk]
    ELSE IF ok THEN [err |-> FALSE, link |-> [lk EXCEPT !.client = TRUE]]
    ELSE [err |-> TRUE, link |-> lk]

\* modbus.Client.Close
Close(lk) == [lk EXCEPT !.client = FALSE]

\* ReadAllData up to the probe, on a fresh InverterData
ProbeData(lk, now, devOk) ==
    FieldStore(1, NewInverterData(now), FieldRead(1, lk, devOk))

\* ReadAllData after the probe: the reads of the fields from i on
RECURSIVE RestData(_, _, _, _)
RestData(i, d, lk, devOk) ==
    LET r == FieldRead(i, lk, devOk)
        n == AfterField(i, r.err)
    IN  IF n > NumFields THEN FieldStore(i, d, r)
        ELSE RestData(n, FieldStore(i, d, r), lk, devOk)

\* a failed request is charged to the budget of failures
Charge(failed) == IF failed THEN faults + 1 ELSE faults

CollInit ==
    /\ c_client = 1
    /\ c_sungrow = 1
    /\ latestData = 0
    /\ isCollecting = FALSE
    /\ enabled \in BOOLEAN
    /\ muW = "none"
    /\ muR = {}
    /\ links = [i \in LinkIds |-> NoLink]
    /\ nextLink = 2
    /\ heap = [i \in HeapIds |-> NoReading]
    /\ calls = 0
    /\ dbOpen = TRUE
    /\ pubOpen = TRUE
    /\ faults = 0
    /\ cancelled = FALSE
    /\ stopped = FALSE
    /\ pc = [p \in Procs |-> "idle"]
    /\ data = [p \in Procs |-> 0]
    /\ lClient = 0
    /\ lSungrow = 0
    /\ tick = NoTick
    /\ uNew = 0
    /\ uOld = 0
    /\ uSnap = NoSnap
    /\ uRet = "none"
    /\ oClient = 0
    /\ oSungrow = 0
    /\ oRet = "none"
    /\ observed = 0
    /\ seenCollecting = "none"


loopLoc == << lClient, lSungrow, tick >>

updLoc == << uNew, uOld, uSnap, uRet >>

onceLoc == << oClient, oSungrow, oRet >>

readLoc == << observed, seenCollecting >>

envVars == << dbOpen, pubOpen, cancelled, stopped, enabled >>

collFields == << c_client, c_sungrow, isCollecting >>

muVars == << muW, muR >>

linkVars == << links, nextLink >>

heapVars == << heap, calls >>

(***************************************************************************)
(* Start and collect: the acquisition loop.                                *)
(***************************************************************************)
\* faulty variant: collect reconnects and retries as long as the sweep fails
AfterSweepErrorRetries(n) == "reconnClose"

\* faulty variant: collect publishes the Reading of the failed retry
AfterSweepErrorPublishes(n) == IF n = 1 THEN "reconnClose" ELSE "publish"

\* faulty variant: the loop ends when the retry fails
AfterSweepErrorStops(n) == IF n = 1 THEN "reconnClose" ELSE "returned"

\* collect after a sweep that returned an error: reconnect after the first
\* sweep of the tick, give up (back to the ticker) after the retry
AfterSweepError(n) == IF n = 1 THEN "reconnClose" ELSE "wait"

\* faulty variant: Start goes to the ticker without the initial collection
FirstStepWaits(en) == IF en THEN "wait" ELSE "returned"

\* where Start goes first: `return nil` when disabled, else c.collect()
FirstStep(en) == IF en THEN "collect" ELSE "returned"

\* Start on a disabled collector returns at once
StartDisabled ==
    /\ pc["loop"] = "idle"
    /\ ~enabled
    /\ pc' = [pc EXCEPT !["loop"] = FirstStep(enabled)]
    /\ UNCHANGED << sweepVars, clVars, fnVars, collFields, latestData, muVars, linkVars, heapVars,
                    faults, data, loopLoc, updLoc, onceLoc, readLoc, envVars >>

\* Start: isCollecting = true under the lock, then the initial collection
StartEnabled ==
    /\ pc["loop"] = "idle"
    /\ enabled
    /\ CanLock
    /\ isCollecting' = TRUE
    /\ pc' = [pc EXCEPT !["loop"] = FirstStep(enabled)]
    /\ UNCHANGED << sweepVars, clVars, fnVars, c_client, c_sungrow, latestData, muVars, linkVars,
                    heapVars, faults, data, loopLoc, updLoc, onceLoc, readLoc,
                    envVars >>

\* collect: RLock, the copies of the collector's fields
CollectBegin ==
    /\ pc["loop"] = "collect"
    /\ CanCall
    /\ CanRLock
    /\ muR' = muR \cup {"loop"}
    /\ lClient' = c_client
    /\ lSungrow' = c_sungrow
    /\ tick' = [NoTick EXCEPT !.n = tick.n + 1, !.waits = tick.waits]
    /\ calls' = calls + 1
    /\ pc' = [pc EXCEPT !["loop"] = "connect"]
    /\ UNCHANGED << sweepVars, clVars, fnVars, collFields, latestData, muW, linkVars, heap,
                    faults, data, updLoc, onceLoc, readLoc, envVars >>

\* client.Connect(); on an error RUnlock and return
CollectConnect ==
    /\ pc["loop"] = "connect"
    /\ \E ok \in Answers :
         LET c == Connect(links[lClient], ok)
         IN  /\ links' = [links EXCEPT ![lClient] = c.link]
             /\ faults' = Charge(c.err)
             /\ muR' = IF c.err THEN muR \ {"loop"} ELSE muR
             /\ pc' = [pc EXCEPT !["loop"] = IF c.err THEN "wait" ELSE "probe"]
    /\ UNCHANGED << sweepVars, clVars, fnVars, collFields, latestData, muW, nextLink, heapVars,
                    data, loopLoc, updLoc, onceLoc, readLoc, envVars >>

\* sungrow.ReadAllData() up to the probe, the first sweep of the tick or the retry
CollectProbe ==
    /\ pc["loop"] = "probe"
    /\ \E devOk \in Answers :
         LET id == Alloc(heap)
             d == ProbeData(links[lSungrow], calls, devOk)
             err == ~d.IsOnline
             n == tick.sweeps + 1
             nxt == IF err THEN AfterSweepError(n) ELSE "rest"
             dt == [data EXCEPT !["loop"] = IF nxt = "wait" THEN 0 ELSE id]
         IN  /\ data' = dt
             /\ heap' = Gc([heap EXCEPT ![id] = d], latestData, observed, dt)
             /\ faults' = Charge(links[lSungrow].client /\ ~devOk)
             /\ tick' = [tick EXCEPT !.sweeps = n,
                                     !.firstErr = IF n = 1 THEN err ELSE @,
                                     !.lastErr = err]
             /\ muR' = IF nxt \in {"wait", "publish"} THEN muR \ {"loop"} ELSE muR
             /\ pc' = [pc EXCEPT !["loop"] = nxt]
    /\ UNCHANGED << sweepVars, clVars, fnVars, collFields, latestData, muW, linkVars, calls,
                    lClient, lSungrow, updLoc, onceLoc, readLoc, envVars >>

\* the rest of ReadAllData, then RUnlock
CollectRest ==
    /\ pc["loop"] = "rest"
    /\ \E devOk \in Answers :
         /\ heap' = [heap EXCEPT ![data["loop"]] =
                        RestData(2, @, links[lSungrow], devOk)]
         /\ faults' = Charge(links[lSungrow].client /\ ~devOk)
    /\ muR' = muR \ {"loop"}
    /\ pc' = [pc EXCEPT !["loop"] = "publish"]
    /\ UNCHANGED << sweepVars, clVars, fnVars, collFields, latestData, muW, linkVars, calls, data,
                    loopLoc, updLoc, onceLoc, readLoc, envVars >>

\* client.Reconnect(): Close ...
ReconnClose ==
    /\ pc["loop"] = "reconnClose"
    /\ links' = [links EXCEPT ![lClient] = Close(@)]
    /\ tick' = [tick EXCEPT !.reconnects = @ + 1]
    /\ pc' = [pc EXCEPT !["loop"] = "reconnConnect"]
    /\ UNCHANGED << sweepVars, clVars, fnVars, collFields, latestData, muVars, nextLink, heapVars,
                    faults, data, lClient, lSungrow, updLoc, onceLoc,
                    readLoc, envVars >>

\* ... then Connect; on an error RUnlock and return
ReconnConnect ==
    /\ pc["loop"] = "reconnConnect"
    /\ \E ok \in Answers :
         LET c == Connect(links[lClient], ok)
             dt == [data EXCEPT !["loop"] = IF c.err THEN 0 ELSE @]
         IN  /\ links' = [links EXCEPT ![lClient] = c.link]
             /\ faults' = Charge(c.err)
             /\ muR' = IF c.err THEN muR \ {"loop"} ELSE muR
             /\ data' = dt
             /\ heap' = Gc(heap, latestData, observed, dt)
             /\ pc' = [pc EXCEPT !["loop"] = IF c.err THEN "wait" ELSE "probe"]
    /\ UNCHANGED << sweepVars, clVars, fnVars, collFields, latestData, muW, nextLink, calls,
                    loopLoc, updLoc, onceLoc, readLoc, envVars >>

\* c.mu.Lock(); c.latestData = data; c.mu.Unlock()
CollectPublish ==
    /\ pc["loop"] = "publish"
    /\ CanLock
    /\ latestData' = data["loop"]
    /\ heap' = Gc(heap, latestData', observed, data)
    /\ pc' = [pc EXCEPT !["loop"] = "handoff"]
    /\ UNCHANGED << sweepVars, clVars, fnVars, collFields, muVars, linkVars, calls, faults, data,
                    loopLoc, updLoc, onceLoc, readLoc, envVars >>

\* what a collaborator returns: an error when its handle was closed or the
\* request fails
HandOff(open, ok) == IF open /\ ok THEN "ok" ELSE "err"

\* faulty variant: a failed save ends the hand-off
AfterSaveReturns(saved) == IF saved = "err" THEN "return" ELSE "send"

\* collect after db.SaveReading: the error is logged, publisher.Publish follows
AfterSave(saved) == "send"

\* the hand-off: db.SaveReading(data), then publisher.Publish(data), whether
\* the save failed or not; their errors are only logged; collect returns
CollectHandOff ==
    /\ pc["loop"] = "handoff"
    /\ \E saveOk \in Answers :
         LET saved == HandOff(dbOpen, saveOk)
             f1 == Charge(dbOpen /\ ~saveOk)
         IN  \E sendOk \in (IF f1 < MaxFaults THEN BOOLEAN ELSE {TRUE}) :
               LET sent == IF AfterSave(saved) = "send"
                           THEN HandOff(pubOpen, sendOk) ELSE "none"
               IN  /\ tick' = [tick EXCEPT !.saved = saved, !.sent = sent]
                   /\ faults' = IF pubOpen /\ ~sendOk /\ sent # "none"
                                 THEN f1 + 1 ELSE f1
    /\ data' = [data EXCEPT !["loop"] = 0]
    /\ heap' = Gc(heap, latestData, observed, data')
    /\ pc' = [pc EXCEPT !["loop"] = "wait"]
    /\ UNCHANGED << sweepVars, clVars, fnVars, collFields, latestData, muVars, linkVars, calls,
                    lClient, lSungrow, updLoc, onceLoc, readLoc, envVars >>

\* case <-ticker.C: c.collect()
LoopTick ==
    /\ pc["loop"] = "wait"
    /\ tick.waits < MaxCalls
    /\ tick' = [tick EXCEPT !.waits = @ + 1]
    /\ pc' = [pc EXCEPT !["loop"] = "collect"]
    /\ UNCHANGED << sweepVars, clVars, fnVars, collFields, latestData, muVars, linkVars, heapVars,
                    faults, data, lClient, lSungrow, updLoc, onceLoc, readLoc,
                    envVars >>

\* faulty variant: the select never takes the ctx.Done() case
DoneNeverSeen(l, done) == FALSE

\* faulty variant: cancellation ends the loop wherever collect stands
DoneSeenAnywhere(l, done) == done /\ l \notin {"idle", "returned"}

\* ctx.Done() is received: only in the select of Start, between two calls
\* of collect
DoneSeen(l, done) == done /\ l = "wait"

\* case <-ctx.Done(): isCollecting = false under the lock, Start returns
LoopExit ==
    /\ DoneSeen(pc["loop"], cancelled)
    /\ CanLock
    /\ isCollecting' = FALSE
    /\ pc' = [pc EXCEPT !["loop"] = "returned"]
    /\ UNCHANGED << sweepVars, clVars, fnVars, c_client, c_sungrow, latestData, muVars, linkVars,
                    heapVars, faults, data, loopLoc, updLoc, onceLoc, readLoc,
                    envVars >>

\* the context is cancelled
Cancel ==
    /\ ~cancelled
    /\ CanCall
    /\ calls' = calls + 1
    /\ cancelled' = TRUE
    /\ UNCHANGED << sweepVars, clVars, fnVars, collFields, latestData, muVars, linkVars, heap,
                    faults, pc, data, loopLoc, updLoc, onceLoc, readLoc, dbOpen,
                    pubOpen, stopped, enabled >>


(***************************************************************************)
(* UpdateInverterConfig.                                                   *)
(***************************************************************************)
\* faulty variant: UpdateInverterConfig runs without the lock
UpdTakesNoLock == "none"

\* the lock UpdateInverterConfig takes on entry (c.mu.Lock(); defer c.mu.Unlock())
UpdLockHolder == "upd"

\* faulty variant: the candidate is applied whatever the validation sweep returned
AfterValidationApplies(err) == "closeOld"

\* after the validation sweep: close the candidate and fail, or apply it
AfterValidation(err) == IF err THEN "closeNew" ELSE "closeOld"

\* faulty variant: the failure path leaves the candidate open
CloseCandidateForgotten(lk) == lk

\* newClient.Close() on the failure path
CloseCandidate(lk) == Close(lk)

\* modbus.NewClient(ip, port, slaveID, timeout), then Lock has been taken
UpdCall ==
    /\ pc["upd"] = "idle"
    /\ CanCall
    /\ CanLock
    /\ \E cfg \in Configs :
         links' = [links EXCEPT ![nextLink] = [cfg |-> cfg, client |-> FALSE]]
    /\ muW' = UpdLockHolder
    /\ uOld' = c_client
    /\ uNew' = nextLink
    /\ nextLink' = nextLink + 1
    /\ uSnap' = [client |-> c_client, sungrow |-> c_sungrow, latest |-> latestData,
                 link |-> links[c_client]]
    /\ uRet' = "none"
    /\ calls' = calls + 1
    /\ pc' = [pc EXCEPT !["upd"] = "connect"]
    /\ UNCHANGED << sweepVars, clVars, fnVars, collFields, latestData, muR, heap, faults, data,
                    loopLoc, onceLoc, readLoc, envVars >>

\* newClient.Connect(); on an error return it
UpdConnect ==
    /\ pc["upd"] = "connect"
    /\ \E ok \in Answers :
         LET c == Connect(links[uNew], ok)
         IN  /\ links' = [links EXCEPT ![uNew] = c.link]
             /\ faults' = Charge(c.err)
             /\ muW' = IF c.err THEN "none" ELSE muW
             /\ uRet' = IF c.err THEN "errConnect" ELSE uRet
             /\ pc' = [pc EXCEPT !["upd"] = IF c.err THEN "idle" ELSE "probe"]
    /\ UNCHANGED << sweepVars, clVars, fnVars, collFields, latestData, muR, nextLink, heapVars,
                    data, loopLoc, uNew, uOld, uSnap, onceLoc, readLoc,
                    envVars >>

\* newSungrow.ReadAllData() up to the probe
UpdProbe ==
    /\ pc["upd"] = "probe"
    /\ \E devOk \in Answers :
         LET id == Alloc(heap)
             d == ProbeData(links[uNew], calls, devOk)
             err == ~d.IsOnline
         IN  /\ data' = [data EXCEPT !["upd"] = id]
             /\ heap' = [heap EXCEPT ![id] = d]
             /\ faults' = Charge(links[uNew].client /\ ~devOk)
             /\ pc' = [pc EXCEPT !["upd"] =
                          IF err THEN AfterValidation(TRUE) ELSE "rest"]
    /\ UNCHANGED << sweepVars, clVars, fnVars, collFields, latestData, muVars, linkVars, calls,
                    loopLoc, updLoc, onceLoc, readLoc, envVars >>

\* the rest of the validation sweep
UpdRest ==
    /\ pc["upd"] = "rest"
    /\ \E devOk \in Answers :
         /\ heap' = [heap EXCEPT ![data["upd"]] = RestData(2, @, links[uNew], devOk)]
         /\ faults' = Charge(links[uNew].client /\ ~devOk)
    /\ pc' = [pc EXCEPT !["upd"] = AfterValidation(FALSE)]
    /\ UNCHANGED << sweepVars, clVars, fnVars, collFields, latestData, muVars, linkVars, calls, data,
                    loopLoc, updLoc, onceLoc, readLoc, envVars >>

\* newClient.Close(); return the error
UpdCloseNew ==
    /\ pc["upd"] = "closeNew"
    /\ links' = [links EXCEPT ![uNew] = CloseCandidate(@)]
    /\ muW' = "none"
    /\ uRet' = "errRead"
    /\ data' = [data EXCEPT !["upd"] = 0]
    /\ heap' = Gc(heap, latestData, observed, data')
    /\ pc' = [pc EXCEPT !["upd"] = "idle"]
    /\ UNCHANGED << sweepVars, clVars, fnVars, collFields, latestData, muR, nextLink, calls, faults,
                    loopLoc, uNew, uOld, uSnap, onceLoc, readLoc, envVars >>

\* oldClient.Close()
UpdCloseOld ==
    /\ pc["upd"] = "closeOld"
    /\ links' = [links EXCEPT ![uOld] = Close(@)]
    /\ pc' = [pc EXCEPT !["upd"] = "setClient"]
    /\ UNCHANGED << sweepVars, clVars, fnVars, collFields, latestData, muVars, nextLink, heapVars,
                    faults, data, loopLoc, updLoc, onceLoc, readLoc, envVars >>

\* c.client = newClient
UpdSetClient ==
    /\ pc["upd"] = "setClient"
    /\ c_client' = uNew
    /\ pc' = [pc EXCEPT !["upd"] = "setSungrow"]
    /\ UNCHANGED << sweepVars, clVars, fnVars, c_sungrow, isCollecting, latestData, muVars,
                    linkVars, heapVars, faults, data, loopLoc, updLoc, onceLoc,
                    readLoc, envVars >>

\* c.sungrow = newSungrow; c.latestData = data; return nil
UpdSetSungrow ==
    /\ pc["upd"] = "setSungrow"
    /\ c_sungrow' = uNew
    /\ latestData' = data["upd"]
    /\ muW' = "none"
    /\ uRet' = "ok"
    /\ data' = [data EXCEPT !["upd"] = 0]
    /\ heap' = Gc(heap, latestData', observed, data')
    /\ pc' = [pc EXCEPT !["upd"] = "idle"]
    /\ UNCHANGED << sweepVars, clVars, fnVars, c_client, isCollecting, muR, linkVars, calls, faults,
                    loopLoc, uNew, uOld, uSnap, onceLoc, readLoc, envVars >>

(***************************************************************************)
(* CollectOnce: it reads c.client and c.sungrow without the lock.          *)
(***************************************************************************)
\* c.client.IsConnected()
OnceCall ==
    /\ pc["once"] = "idle"
    /\ CanCall
    /\ calls' = calls + 1
    /\ oRet' = "none"
    /\ pc' = [pc EXCEPT !["once"] =
                 IF links[c_client].client THEN "probe" ELSE "load"]
    /\ UNCHANGED << sweepVars, clVars, fnVars, collFields, latestData, muVars, linkVars, heap,
                    faults, data, loopLoc, updLoc, oClient, oSungrow, readLoc,
                    envVars >>

\* the receiver of c.client.Connect() is read, without the lock, before the
\* call takes the lock of the link
OnceLoad ==
    /\ pc["once"] = "load"
    /\ oClient' = c_client
    /\ pc' = [pc EXCEPT !["once"] = "connect"]
    /\ UNCHANGED << sweepVars, clVars, fnVars, collFields, latestData, muVars, linkVars,
                    heapVars, faults, data, loopLoc, updLoc, oSungrow, oRet,
                    readLoc, envVars >>

\* c.client.Connect() on the client that was read; on an error return it
OnceConnect ==
    /\ pc["once"] = "connect"
    /\ \E ok \in Answers :
         LET c == Connect(links[oClient], ok)
         IN  /\ links' = [links EXCEPT ![oClient] = c.link]
             /\ faults' = Charge(c.err)
             /\ oRet' = IF c.err THEN "err" ELSE oRet
             /\ pc' = [pc EXCEPT !["once"] = IF c.err THEN "idle" ELSE "probe"]
    /\ UNCHANGED << sweepVars, clVars, fnVars, collFields, latestData, muVars, nextLink, heapVars,
                    data, loopLoc, updLoc, oClient, oSungrow, readLoc, envVars >>

\* c.sungrow.ReadAllData() up to the probe; on an error return it
OnceProbe ==
    /\ pc["once"] = "probe"
    /\ \E devOk \in Answers :
         LET id == Alloc(heap)
             d == ProbeData(links[c_sungrow], calls, devOk)
             err == ~d.IsOnline
             dt == [data EXCEPT !["once"] = IF err THEN 0 ELSE id]
         IN  /\ oSungrow' = c_sungrow
             /\ data' = dt
             /\ heap' = Gc([heap EXCEPT ![id] = d], latestData, observed, dt)
             /\ faults' = Charge(links[c_sungrow].client /\ ~devOk)
             /\ oRet' = IF err THEN "err" ELSE oRet
             /\ pc' = [pc EXCEPT !["once"] = IF err THEN "idle" ELSE "rest"]
    /\ UNCHANGED << sweepVars, clVars, fnVars, collFields, latestData, muVars, linkVars, calls,
                    loopLoc, updLoc, oClient, readLoc, envVars >>

\* the rest of the sweep
OnceRest ==
    /\ pc["once"] = "rest"
    /\ \E devOk \in Answers :
         /\ heap' = [heap EXCEPT ![data["once"]] =
                        RestData(2, @, links[oSungrow], devOk)]
         /\ faults' = Charge(links[oSungrow].client /\ ~devOk)
    /\ pc' = [pc EXCEPT !["once"] = "publish"]
    /\ UNCHANGED << sweepVars, clVars, fnVars, collFields, latestData, muVars, linkVars, calls, data,
                    loopLoc, updLoc, onceLoc, readLoc, envVars >>

\* c.mu.Lock(); c.latestData = data; c.mu.Unlock(); return data, nil
OncePublish ==
    /\ pc["once"] = "publish"
    /\ CanLock
    /\ latestData' = data["once"]
    /\ oRet' = "ok"
    /\ data' = [data EXCEPT !["once"] = 0]
    /\ heap' = Gc(heap, latestData', observed, data')
    /\ pc' = [pc EXCEPT !["once"] = "idle"]
    /\ UNCHANGED << sweepVars, clVars, fnVars, collFields, muVars, linkVars, calls, faults, loopLoc,
                    updLoc, oClient, oSungrow, readLoc, envVars >>

(***************************************************************************)
(* Stop and the accessors.                                                 *)
(***************************************************************************)
\* Stop: under the lock, close the client, the publisher and the database
Stop ==
    /\ ~stopped
    /\ CanCall
    /\ CanLock
    /\ calls' = calls + 1
    /\ links' = [links EXCEPT ![c_client] = Close(@)]
    /\ pubOpen' = FALSE
    /\ dbOpen' = FALSE
    /\ stopped' = TRUE
    /\ UNCHANGED << sweepVars, clVars, fnVars, collFields, latestData, muVars, nextLink, heap,
                    faults, pc, data, loopLoc, updLoc, onceLoc, readLoc, cancelled,
                    enabled >>

\* GetLatestData: RLock; return c.latestData
GetLatestData ==
    /\ CanCall
    /\ CanRLock
    /\ calls' = calls + 1
    /\ observed' = latestData
    /\ heap' = Gc(heap, latestData, observed', data)
    /\ UNCHANGED << sweepVars, clVars, fnVars, collFields, latestData, muVars, linkVars,
                    faults, pc, data, loopLoc, updLoc, onceLoc, seenCollecting,
                    envVars >>

\* IsCollecting: RLock; return c.isCollecting
IsCollecting ==
    /\ CanCall
    /\ CanRLock
    /\ calls' = calls + 1
    /\ seenCollecting' = IF isCollecting THEN "true" ELSE "false"
    /\ UNCHANGED << sweepVars, clVars, fnVars, collFields, latestData, muVars, linkVars, heap,
                    faults, pc, data, loopLoc, updLoc, onceLoc, observed, envVars >>

(***************************************************************************)
(* SpecLink: one modbus.Client called by several goroutines                *)
(* (internal/modbus/client.go).  Every method begins with c.mu.Lock() and  *)
(* ends with the deferred c.mu.Unlock(); Reconnect calls Close, then       *)
(* Connect, and holds no lock between them.                                *)
(***************************************************************************)
Callers == {"a", "b"}

Methods == {"Connect", "Close", "IsConnected", "Read", "Reconnect"}

\* the calls a caller makes
MaxLinkCalls == 2

\* faulty variant: a register read does not wait for the mutex
ReadEntersUnlocked(op, mu) == op = "Read" \/ mu = "none"

\* c.mu.Lock() at the head of every method returns when the mutex is free
MayEnter(op, mu) == mu = "none"

\* faulty variant: Connect opens a channel whether it has one or not
ConnectNeverKeeps(cl) == FALSE

\* Connect: `if c.client != nil { return nil }`
ConnectKeeps(cl) == cl # 0

\* faulty variant: Close drops the pointer and leaves the channel open
ReleasedNothing(cl, chs) == chs

\* Close: c.client.Close() releases the channel c.client points to
Released(cl, chs) == chs \ {cl}

\* the first method a call runs, and the one that follows it
FirstMethod(m) == IF m = "Reconnect" THEN "Close" ELSE m

\* Reconnect: c.Close(); return c.Connect()
NextMethod(top, m) ==
    IF top = "Reconnect" /\ m = "Close" THEN "Connect" ELSE "none"

ClInit ==
    /\ cl_client = 0
    /\ cl_mu = "none"
    /\ channels = {}
    /\ nextChannel = 1
    /\ inflight = {}
    /\ cpc = [t \in Callers |-> "idle"]
    /\ cop = [t \in Callers |-> "none"]
    /\ ctop = [t \in Callers |-> "none"]
    /\ cres = [t \in Callers |-> "none"]
    /\ cnew = [t \in Callers |-> 0]
    /\ cdone = [t \in Callers |-> 0]

\* a goroutine calls a method of the client
ClCall(t) ==
    /\ cpc[t] = "idle"
    /\ cdone[t] < MaxLinkCalls
    /\ \E m \in Methods :
         /\ ctop' = [ctop EXCEPT ![t] = m]
         /\ cop' = [cop EXCEPT ![t] = FirstMethod(m)]
    /\ cpc' = [cpc EXCEPT ![t] = "lock"]
    /\ cres' = [cres EXCEPT ![t] = "none"]
    /\ cnew' = [cnew EXCEPT ![t] = 0]
    /\ cdone' = [cdone EXCEPT ![t] = @ + 1]
    /\ UNCHANGED << sweepVars, collVars, fnVars, cl_client, cl_mu, channels, nextChannel,
                    inflight >>

\* c.mu.Lock()
ClLock(t) ==
    /\ cpc[t] = "lock"
    /\ MayEnter(cop[t], cl_mu)
    /\ cl_mu' = t
    /\ cpc' = [cpc EXCEPT ![t] = "body"]
    /\ UNCHANGED << sweepVars, collVars, fnVars, cl_client, channels, nextChannel, inflight,
                    cop, ctop, cres, cnew, cdone >>

\* Connect under the mutex: nothing when c.client is set; else a new modbus
\* client is made and opened, and kept in c.client when Open succeeded
ClConnect(t) ==
    /\ cpc[t] = "body"
    /\ cop[t] = "Connect"
    /\ \/ /\ ConnectKeeps(cl_client)
          /\ cres' = [cres EXCEPT ![t] = "ok"]
          /\ UNCHANGED << cl_client, channels, nextChannel, cnew >>
       \/ /\ ~ConnectKeeps(cl_client)
          /\ \E ok \in BOOLEAN :
               IF ok
               THEN /\ channels' = channels \cup {nextChannel}
                    /\ cl_client' = nextChannel
                    /\ cnew' = [cnew EXCEPT ![t] = nextChannel]
                    /\ nextChannel' = nextChannel + 1
                    /\ cres' = [cres EXCEPT ![t] = "ok"]
               ELSE /\ cres' = [cres EXCEPT ![t] = "err"]
                    /\ UNCHANGED << cl_client, channels, nextChannel, cnew >>
    /\ cpc' = [cpc EXCEPT ![t] = "unlock"]
    /\ UNCHANGED << sweepVars, collVars, fnVars, cl_mu, inflight, cop, ctop, cdone >>

\* Close under the mutex: nothing when c.client is nil; else the channel is
\* closed and c.client = nil
ClClose(t) ==
    /\ cpc[t] = "body"
    /\ cop[t] = "Close"
    /\ channels' = IF cl_client = 0 THEN channels ELSE Released(cl_client, channels)
    /\ cl_client' = 0
    /\ cres' = [cres EXCEPT ![t] = "ok"]
    /\ cpc' = [cpc EXCEPT ![t] = "unlock"]
    /\ UNCHANGED << sweepVars, collVars, fnVars, cl_mu, nextChannel, inflight, cop, ctop,
                    cnew, cdone >>

\* IsConnected under the mutex: c.client != nil
ClIsConnected(t) ==
    /\ cpc[t] = "body"
    /\ cop[t] = "IsConnected"
    /\ cres' = [cres EXCEPT ![t] = IF cl_client # 0 THEN "true" ELSE "false"]
    /\ cpc' = [cpc EXCEPT ![t] = "unlock"]
    /\ UNCHANGED << sweepVars, collVars, fnVars, cl_client, cl_mu, channels, nextChannel,
                    inflight, cop, ctop, cnew, cdone >>

\* ReadInputRegisters under the mutex: an error when c.client is nil, else
\* the request goes out on the channel of c.client
ClReadSend(t) ==
    /\ cpc[t] = "body"
    /\ cop[t] = "Read"
    /\ IF cl_client = 0
       THEN /\ cres' = [cres EXCEPT ![t] = "err"]
            /\ cpc' = [cpc EXCEPT ![t] = "unlock"]
            /\ UNCHANGED inflight
       ELSE /\ inflight' = inflight \cup {[by |-> t, ch |-> cl_client]}
            /\ cpc' = [cpc EXCEPT ![t] = "await"]
            /\ UNCHANGED cres
    /\ UNCHANGED << sweepVars, collVars, fnVars, cl_client, cl_mu, channels, nextChannel,
                    cop, ctop, cnew, cdone >>

\* the answer, or the failure, of the request comes back
ClReadReply(t) ==
    /\ cpc[t] = "await"
    /\ \E ok \in BOOLEAN :
         cres' = [cres EXCEPT ![t] = IF ok THEN "ok" ELSE "err"]
    /\ inflight' = {r \in inflight : r.by # t}
    /\ cpc' = [cpc EXCEPT ![t] = "unlock"]
    /\ UNCHANGED << sweepVars, collVars, fnVars, cl_client, cl_mu, channels, nextChannel,
                    cop, ctop, cnew, cdone >>

\* the deferred c.mu.Unlock(); Reconnect goes on from Close to Connect
ClUnlock(t) ==
    /\ cpc[t] = "unlock"
    /\ cl_mu' = IF cl_mu = t THEN "none" ELSE cl_mu
    /\ LET m == NextMethod(ctop[t], cop[t])
       IN  IF m = "none"
           THEN /\ cpc' = [cpc EXCEPT ![t] = "idle"]
                /\ UNCHANGED cop
           ELSE /\ cpc' = [cpc EXCEPT ![t] = "lock"]
                /\ cop' = [cop EXCEPT ![t] = m]
    /\ UNCHANGED << sweepVars, collVars, fnVars, cl_client, channels, nextChannel, inflight,
                    ctop, cres, cnew, cdone >>

LinkNext ==
    \E t \in Callers :
        \/ ClCall(t) \/ ClLock(t) \/ ClConnect(t) \/ ClClose(t)
        \/ ClIsConnected(t) \/ ClReadSend(t) \/ ClReadReply(t) \/ ClUnlock(t)

LinkInit == ClInit /\ CollInit /\ enabled = TRUE /\ SweepInit
            /\ rdLink = [cfg |-> "A", client |-> FALSE] /\ FnIdle

SpecLink == LinkInit /\ [][LinkNext]_vars

Init == CollInit /\ SweepInit /\ ClInit /\ rdLink = [cfg |-> "A", client |-> FALSE]
        /\ FnIdle

Next ==
    \/ StartDisabled \/ StartEnabled \/ CollectBegin \/ CollectConnect
    \/ CollectProbe \/ CollectRest \/ ReconnClose \/ ReconnConnect
    \/ CollectPublish \/ CollectHandOff \/ LoopTick \/ LoopExit
    \/ Cancel
    \/ UpdCall \/ UpdConnect \/ UpdProbe \/ UpdRest \/ UpdCloseNew
    \/ UpdCloseOld \/ UpdSetClient \/ UpdSetSungrow
    \/ OnceCall \/ OnceLoad \/ OnceConnect \/ OnceProbe \/ OnceRest \/ OncePublish
    \/ Stop \/ GetLatestData \/ IsCollecting

Spec == Init /\ [][Next]_vars

SweepSpecInit == SweepInit /\ CollInit /\ enabled = TRUE /\ ClInit /\ FnIdle

SpecSweep == SweepSpecInit /\ [][SweepNext]_vars

(***************************************************************************)
(* SpecDecode: what ReadUint16, ReadInt16, ReadUint32, ReadInt32 and       *)
(* ReadString make of the words ReadInputRegisters returned without an     *)
(* error.  The reply is any sequence of up to MaxWords words: the methods  *)
(* index it and range over it without looking at its length.               *)
(***************************************************************************)
\* the longest reply
MaxWords == 3

\* 0x0010, 'N', "S\0", "SN", the sign bit alone, all bits, and the ends
SampleWords == {0, 1, 16, 78, 21248, 21326, 32768, 65535}

WordSeqs == UNION {[1..n -> SampleWords] : n \in 0..MaxWords}

\* regs[n-1] of a slice shorter than n words is a run-time panic (index out
\* of range)
IndexPanics(regs, n) == Len(regs) < n

Panicked(k, n) == [kind |-> k, want |-> n, st |-> "panic"]

Decoded(k, n, v) == [kind |-> k, want |-> n, st |-> "value", val |-> v]

DecInit ==
    /\ dRegs \in WordSeqs
    /\ dOut = NoOut

DecodeUint16 ==
    /\ dOut = NoOut
    /\ dOut' = IF IndexPanics(dRegs, 1) THEN Panicked("uint16", 1)
               ELSE Decoded("uint16", 1, dRegs[1])
    /\ UNCHANGED << exceptDec, dRegs >>

DecodeInt16 ==
    /\ dOut = NoOut
    /\ dOut' = IF IndexPanics(dRegs, 1) THEN Panicked("int16", 1)
               ELSE Decoded("int16", 1, ToInt16(dRegs[1]))
    /\ UNCHANGED << exceptDec, dRegs >>

DecodeUint32 ==
    /\ dOut = NoOut
    /\ dOut' = IF IndexPanics(dRegs, 2) THEN Panicked("uint32", 2)
               ELSE Decoded("uint32", 2, Uint32Of(dRegs))
    /\ UNCHANGED << exceptDec, dRegs >>

DecodeInt32 ==
    /\ dOut = NoOut
    /\ dOut' = IF IndexPanics(dRegs, 2) THEN Panicked("int32", 2)
               ELSE Decoded("int32", 2, ToInt32(Uint32Of(dRegs)))
    /\ UNCHANGED << exceptDec, dRegs >>

\* length is the number of words asked for; the loop takes the words there are
DecodeString ==
    /\ dOut = NoOut
    /\ \E length \in 1..MaxWords :
           dOut' = Decoded("string", length, StripNul(WordBytes(dRegs)))
    /\ UNCHANGED << exceptDec, dRegs >>

DecodeNext ==
    DecodeUint16 \/ DecodeInt16 \/ DecodeUint32 \/ DecodeInt32 \/ DecodeString

DecodeSpecInit ==
    /\ DecInit
    /\ CollInit /\ enabled = TRUE /\ SweepInit /\ ClInit
    /\ rdLink = [cfg |-> "A", client |-> FALSE]
    /\ InsIdle /\ SrvIdle

SpecDecode == DecodeSpecInit /\ [][DecodeNext]_vars

(***************************************************************************)
(* SpecInsight: one request to productionInsightsHandler.  An instant is   *)
(* a number of minutes; 0 is the zero time.Time, which is before every     *)
(* other instant.  The local clock shows minute t % 1440 of the day at     *)
(* instant t.  A float64 is the fraction num / div, div > 0.               *)
(***************************************************************************)
insightHistoryDays == 30

insightBucketMinutes == 30

insightMinSamples == 20

\* 0.4
insightLowRatio == Scaled(2, 5)

\* t.Hour() and t.Hour()*60 + t.Minute() in the local zone
Hour(t) == (t % 1440) \div 60

MinuteOfDay(t) == Hour(t) * 60 + (t % 60)

\* Condition is a Go string: its bytes
Thunder == << 116, 104, 117, 110, 100, 101, 114 >>

\* strings.ToLower on ASCII
ToLower(str) == [k \in DOMAIN str |-> IF str[k] \in 65..90 THEN str[k] + 32 ELSE str[k]]

\* strings.Contains
Contains(str, sub) ==
    \E i \in 0..(Len(str) - Len(sub)) : SubSeq(str, i + 1, i + Len(sub)) = sub

\* faulty variant: sunrise and sunset themselves are daylight
IsDaylightInclusive(d, at) ==
    IF d = NoWeather \/ d.Sunrise = 0 \/ d.Sunset = 0 THEN FALSE
    ELSE at >= d.Sunrise /\ at <= d.Sunset

\* Data.IsDaylight: at.After(d.Sunrise) && at.Before(d.Sunset)
IsDaylight(d, at) ==
    IF d = NoWeather \/ d.Sunrise = 0 \/ d.Sunset = 0 THEN FALSE
    ELSE at > d.Sunrise /\ at < d.Sunset

\* Server.isDaylight
isDaylight(now, d) ==
    IF d # NoWeather THEN IsDaylight(d, now)
    ELSE Hour(now) >= 6 /\ Hour(now) < 18

\* rain is max(Rain1h, Rain3h/3); the amounts are in tenths of a millimetre
\* and this is three times the maximum
Rain3(d) == IF d.Rain3h > 3 * d.Rain1h THEN d.Rain3h ELSE 3 * d.Rain1h

classifyWeather(d) ==
    IF d = NoWeather THEN ""
    ELSE IF Contains(ToLower(d.Condition), Thunder) THEN "temporal"
    ELSE IF Rain3(d) >= 3 * 50 THEN "chuva forte"
    ELSE IF Rain3(d) >= 3 * 10 THEN "chuva"
    ELSE IF d.Clouds >= 80 THEN "céu encoberto"
    ELSE IF d.Clouds >= 50 THEN "nublado"
    ELSE IF d.Clouds > 0 THEN "poucas nuvens"
    ELSE "céu limpo"

\* the WHERE clause: timestamp >= now.AddDate(0, 0, -days) AND timestamp <= now
Selected(row, now, days) ==
    /\ row.Timestamp >= now - days * 1440
    /\ row.Timestamp <= now

\* faulty variant: the end of the bucket belongs to it
InBucketClosed(minutes, targetMinutes, bucketMinutes) ==
    LET bucketStart == (targetMinutes \div bucketMinutes) * bucketMinutes
    IN  minutes >= bucketStart /\ minutes <= bucketStart + bucketMinutes

InBucket(minutes, targetMinutes, bucketMinutes) ==
    LET bucketStart == (targetMinutes \div bucketMinutes) * bucketMinutes
        bucketEnd == bucketStart + bucketMinutes
    IN  minutes >= bucketStart /\ minutes < bucketEnd

\* the loop over the samples, from sample k on: total and count so far
RECURSIVE SumSamples(_, _, _, _, _, _)
SumSamples(rows, k, now, days, bucketMinutes, acc) ==
    IF k > Len(rows) THEN acc
    ELSE IF /\ Selected(rows[k], now, days)
            /\ InBucket(MinuteOfDay(rows[k].Timestamp), MinuteOfDay(now),
                        bucketMinutes)
         THEN SumSamples(rows, k + 1, now, days, bucketMinutes,
                         [total |-> acc.total + rows[k].TotalActivePower,
                          count |-> acc.count + 1])
         ELSE SumSamples(rows, k + 1, now, days, bucketMinutes, acc)

GetAveragePowerForTimeOfDay(rows, now, days, bucketMinutes) ==
    LET d == IF days <= 0 THEN 30 ELSE days
        b == IF bucketMinutes <= 0 THEN 30 ELSE bucketMinutes
        r == SumSamples(rows, 1, now, d, b, [total |-> 0, count |-> 0])
    IN  IF r.count = 0 THEN [avg |-> ZeroFloat, samples |-> 0]
        ELSE [avg |-> Scaled(r.total, r.count), samples |-> r.count]

\* faulty variant: the history is looked at before the daylight
GateComparesAtNight(daylight, samples, avg) ==
    IF samples < insightMinSamples \/ avg.num <= 0 THEN "insufficient_history"
    ELSE IF ~daylight THEN "night"
    ELSE "compare"

\* faulty variant: insightMinSamples samples are not enough
GateWantsMoreSamples(daylight, samples, avg) ==
    IF ~daylight THEN "night"
    ELSE IF samples <= insightMinSamples \/ avg.num <= 0 THEN "insufficient_history"
    ELSE "compare"

\* the branch the handler takes: !daylight, else samples < insightMinSamples
\* || avg <= 0, else the comparison
Gate(daylight, samples, avg) ==
    IF ~daylight THEN "night"
    ELSE IF samples < insightMinSamples \/ avg.num <= 0 THEN "insufficient_history"
    ELSE "compare"

\* faulty variant: the threshold itself is low
LessOrEqual(a, b) == a.num * b.div <= b.num * a.div

\* a < b of two float64 with positive div
Less(a, b) == a.num * b.div < b.num * a.div

\* float64(x) / f for f > 0
Quot(x, f) == Scaled(x * f.div, f.num)

\* the gin.H of the 200 response, without message and the constants in it
Response(status, ratio, label, latest, q, daylight, d, now) ==
    [code |-> 200, status |-> status, actual_power_w |-> latest,
     expected_avg_w |-> q.avg, ratio |-> ratio, samples |-> q.samples,
     daylight |-> daylight, weather |-> d, weather_label |-> label,
     timestamp |-> now]

\* the handler once latest is not nil and the query has not failed
Insight(now, latest, rows, d) ==
    LET q == GetAveragePowerForTimeOfDay(rows, now, insightHistoryDays,
                                         insightBucketMinutes)
        daylight == isDaylight(now, d)
        gate == Gate(daylight, q.samples, q.avg)
        ratio == Quot(latest, q.avg)
        weatherLabel == classifyWeather(d)
    IN  IF gate # "compare"
        THEN Response(gate, ZeroFloat, "", latest, q, daylight, d, now)
        ELSE IF Less(ratio, insightLowRatio)
        THEN IF weatherLabel # ""
             THEN Response("low_power_weather", ratio, weatherLabel, latest, q,
                           daylight, d, now)
             ELSE Response("low_power_unexpected", ratio, weatherLabel, latest,
                           q, daylight, d, now)
        ELSE Response("normal", ratio, weatherLabel, latest, q, daylight, d, now)

\* latest == nil: 503
InsightNoData ==
    /\ iResp = NoResp
    /\ iLatest = NoLatest
    /\ iResp' = [code |-> 503]
    /\ UNCHANGED << exceptIns, iNow, iLatest, iRows, iWeather, iPayload >>

\* the query returned an error: 500
InsightQueryFails ==
    /\ iResp = NoResp
    /\ iLatest # NoLatest
    /\ iResp' = [code |-> 500]
    /\ UNCHANGED << exceptIns, iNow, iLatest, iRows, iWeather, iPayload >>

productionInsightsHandler ==
    /\ iResp = NoResp
    /\ iLatest # NoLatest
    /\ iResp' = Insight(iNow, iLatest, iRows, iWeather)
    /\ UNCHANGED << exceptIns, iNow, iLatest, iRows, iWeather, iPayload >>

InsightNext == InsightNoData \/ InsightQueryFails \/ productionInsightsHandler

\* the local midnight of the day of the request
Midnight == 40 * 1440

\* n rows of inverter_readings with the same timestamp and power
RowsOf(t, p, n) == [k \in 1..n |-> [Timestamp |-> t, TotalActivePower |-> p]]

\* yesterday around 14:00..14:31, today after 14:25, and 30 and 31 days
\* before 14:25 of today
RowTimes ==
    {Midnight - 1440 + m : m \in {840, 847, 869, 870, 871}}
        \cup {Midnight + 869, Midnight - 30 * 1440 + 865,
              Midnight - 30 * 1440 + 864, Midnight - 31 * 1440 + 847}

\* Thunderstorm, Rain, Fog, Clear
Conditions ==
    { << 84, 104, 117, 110, 100, 101, 114, 115, 116, 111, 114, 109 >>,
      << 82, 97, 105, 110 >>, << 70, 111, 103 >>, << 67, 108, 101, 97, 114 >> }

\* the snapshots a provider returns: open-meteo leaves both sun times zero
\* when the reply has no usable day, else both are set
Snapshots ==
    [Provider : {"openmeteo"}, Condition : Conditions, Clouds : {0, 1, 50, 80},
     Rain1h : {0, 10, 50}, Rain3h : {0, 30, 150},
     Sunrise : {0, Midnight + 372}, Sunset : {0, Midnight + 1083}]

Weathers ==
    {NoWeather} \cup {d \in Snapshots : (d.Sunrise = 0) <=> (d.Sunset = 0)}

\* requests that differ in the history, at 14:25 and 14:31
InsInitHistory ==
    /\ iNow \in {Midnight + 865, Midnight + 871}
    /\ iLatest = 400
    /\ iWeather = NoWeather
    /\ iPayload = NoPayload
    /\ \E ta, tb \in RowTimes :
       \E n \in {0, 1, insightMinSamples - 1, insightMinSamples} :
       \E m \in {0, 1, insightMinSamples} :
       \E pb \in {0, 400} :
           iRows = RowsOf(ta, 1000, n) \o RowsOf(tb, pb, m)

\* requests that differ in the hour, the weather and the latest reading; the
\* history is of the same minute of the day before
InsInitWeather ==
    /\ iNow \in {Midnight + m : m \in {120, 360, 372, 865, 1079, 1080, 1083}}
    /\ iLatest \in {NoLatest, 0, 380, 399, 400}
    /\ iWeather \in Weathers
    /\ iPayload = NoPayload
    /\ iRows \in {RowsOf(iNow - 1440, 1000, insightMinSamples - 1),
                  RowsOf(iNow - 1440, 1000, insightMinSamples),
                  RowsOf(iNow - 1440, 0, insightMinSamples),
                  RowsOf(iNow - 1440, 1000, insightMinSamples - 1)
                      \o RowsOf(iNow - 1440, 0, 1)}

\* the snapshot OpenWeatherClient.Get makes of a decoded response: the three
\* instants are the response's epochs moved by its timezone offset (minutes
\* here, seconds in the response)
OpenWeatherData(payload) ==
    [Provider |-> "openweather", Condition |-> payload.Main,
     Clouds |-> payload.Clouds, Rain1h |-> payload.Rain1h,
     Rain3h |-> payload.Rain3h,
     Sunrise |-> payload.Sunrise + payload.Timezone,
     Sunset |-> payload.Sunset + payload.Timezone]

\* offsets of UTC-3, UTC and UTC+1
Timezones == {0 - 180, 0, 60}

\* responses of a clear day with the sun up from 06:12 to 18:03
Payloads ==
    [Main : {<< 67, 108, 101, 97, 114 >>}, Clouds : {0, 80}, Rain1h : {0},
     Rain3h : {0}, Dt : {Midnight + 860}, Timezone : Timezones,
     Sunrise : {Midnight + 372}, Sunset : {Midnight + 1083}]

\* requests answered from an OpenWeather snapshot, around sunrise and sunset
InsInitOpenWeather ==
    /\ iNow \in {Midnight + m : m \in {300, 372, 400, 865, 1000, 1083, 1100}}
    /\ iLatest \in {380, 400}
    /\ iPayload \in Payloads
    /\ iWeather = OpenWeatherData(iPayload)
    /\ iRows \in {RowsOf(iNow - 1440, 1000, insightMinSamples - 1),
                  RowsOf(iNow - 1440, 1000, insightMinSamples)}

InsInit ==
    /\ iResp = NoResp
    /\ InsInitHistory \/ InsInitWeather \/ InsInitOpenWeather

InsightSpecInit ==
    /\ InsInit
    /\ CollInit /\ enabled = TRUE /\ SweepInit /\ ClInit
    /\ rdLink = [cfg |-> "A", client |-> FALSE]
    /\ DecIdle /\ SrvIdle

SpecInsight == InsightSpecInit /\ [][InsightNext]_vars

\* the collector, the sweep and the link as they are made and left alone
BaseIdle ==
    /\ CollInit /\ enabled = TRUE /\ SweepInit /\ ClInit
    /\ rdLink = [cfg |-> "A", client |-> FALSE]

(***************************************************************************)
(* SpecWeather: getWeather, initWeatherProvider and the weather            *)
(* configuration update of the server, with two insight requests and two   *)
(* update requests at a time.  Instants are minutes.                       *)
(***************************************************************************)
\* insight requests, weather configuration updates and steps of the clock in
\* one behaviour
MaxWeatherOps == 5

weatherCacheTTL == 10

\* the clock moves in steps of half the TTL, from a time after the zero time
ClockStep == 5

ClockStart == 20

Getters == {"g1", "g2"}

Updaters == {"u1", "u2"}

\* "openweather"
OpenWeatherName == << 111, 112, 101, 110, 119, 101, 97, 116, 104, 101, 114 >>

\* "Open-Meteo", "wttr" and the empty string
ProviderNames ==
    { << 79, 112, 101, 110, 45, 77, 101, 116, 101, 111 >>,
      << 119, 116, 116, 114 >>, << >> }

\* weather.enabled and weather.provider of the configuration file
WeatherConfigs == [Enabled : BOOLEAN, Provider : {OpenWeatherName}]

\* the bodies of the update requests
WeatherRequests == [Enabled : BOOLEAN, Provider : ProviderNames]

\* a nil weather.Provider
NoProvider == [id |-> 0, kind |-> "none"]

\* a nil *weather.Data in the cache
NoData == [by |-> 0, n |-> 0]

\* the zero time.Time
ZeroTime == 0

\* cfg outside initWeatherProvider
NoConfig == [Enabled |-> FALSE, Provider |-> << >>]

\* the switch of initWeatherProvider on strings.ToLower(cfg.Provider)
ProviderKind(name) ==
    LET lower == ToLower(name) IN
    IF lower = OpenWeatherName
    THEN "openweather"
    ELSE IF lower \in { << 111, 112, 101, 110, 109, 101, 116, 101, 111 >>,
                        << 111, 112, 101, 110, 45, 109, 101, 116, 101, 111 >>,
                        << 111, 112, 101, 110, 95, 109, 101, 116, 101, 111 >> }
    THEN "openmeteo"
    ELSE "none"

\* the provider initWeatherProvider leaves in s.weather for cfg: the id tells
\* the clients made one after the other apart
NewProvider(cfg, id) ==
    IF ~cfg.Enabled \/ ProviderKind(cfg.Provider) = "none" THEN NoProvider
    ELSE [id |-> id, kind |-> ProviderKind(cfg.Provider)]

\* req.Provider after the default of updateWeatherConfigHandler
WithDefaults(req) ==
    IF req.Provider = << >>
    THEN [req EXCEPT !.Provider = OpenWeatherName]
    ELSE req

\* now.Sub(s.weatherAt) < weatherCacheTTL
Fresh(now, at) == now - at < weatherCacheTTL

\* faulty variant: a failed fetch drops the snapshot
DroppedOnError(cached) == NoData

\* s.weatherData after s.weather.Get returned an error
KeptOnError(cached) == cached

\* faulty variant: the snapshot outlives the provider
CacheKept(cached) == cached

\* s.weatherData = nil of initWeatherProvider
CacheCleared(cached) == NoData

WxInit ==
    /\ wCfg \in WeatherConfigs
    /\ weather = NewProvider(wCfg, 1)
    /\ weatherData = NoData
    /\ weatherAt = ZeroTime
    /\ weatherMu = "none"
    /\ wClock = ClockStart
    /\ wpc = [p \in Getters \cup Updaters |-> "idle"]
    /\ gNow = [p \in Getters |-> 0]
    /\ gRet = [p \in Getters |-> NoData]
    /\ gCalled = [p \in Getters |-> "no"]
    /\ uCfg = NoConfig
    /\ wCount = [made |-> 1, fetched |-> 0, ops |-> 0]

\* time passes
WxTick ==
    /\ wCount.ops < MaxWeatherOps
    /\ wClock' = wClock + ClockStep
    /\ wCount' = [wCount EXCEPT !.ops = @ + 1]
    /\ UNCHANGED << exceptWx, wCfg, weather, weatherData, weatherAt, weatherMu,
                    wpc, gNow, gRet, gCalled, uCfg >>

\* productionInsightsHandler: now := time.Now(), then the query of the history
InsightNow(p) ==
    /\ wpc[p] \in {"idle", "done"}
    /\ wCount.ops < MaxWeatherOps
    /\ gNow' = [gNow EXCEPT ![p] = wClock]
    /\ gRet' = [gRet EXCEPT ![p] = NoData]
    /\ gCalled' = [gCalled EXCEPT ![p] = "no"]
    /\ wpc' = [wpc EXCEPT ![p] = "call"]
    /\ wCount' = [wCount EXCEPT !.ops = @ + 1]
    /\ UNCHANGED << exceptWx, wCfg, weather, weatherData, weatherAt, weatherMu,
                    wClock, uCfg >>

\* getWeather(now) up to its return or to s.weather.Get: Lock, the nil test
\* and the test of the cache; a return unlocks
GetWeatherEnter(p) ==
    /\ wpc[p] = "call"
    /\ weatherMu = "none"
    /\ IF weather = NoProvider
       THEN /\ gRet' = [gRet EXCEPT ![p] = NoData]
            /\ wpc' = [wpc EXCEPT ![p] = "done"]
            /\ UNCHANGED weatherMu
       ELSE IF weatherData # NoData /\ Fresh(gNow[p], weatherAt)
       THEN /\ gRet' = [gRet EXCEPT ![p] = weatherData]
            /\ wpc' = [wpc EXCEPT ![p] = "done"]
            /\ UNCHANGED weatherMu
       ELSE /\ wpc' = [wpc EXCEPT ![p] = "fetch"]
            /\ weatherMu' = p
            /\ UNCHANGED gRet
    /\ UNCHANGED << exceptWx, wCfg, weather, weatherData, weatherAt, wClock,
                    gNow, gCalled, uCfg, wCount >>

\* s.weather.Get returns a snapshot: it is cached with the now of the request
GetWeatherFetched(p) ==
    /\ wpc[p] = "fetch"
    /\ LET snap == [by |-> weather.id, n |-> wCount.fetched + 1] IN
       /\ weatherData' = snap
       /\ gRet' = [gRet EXCEPT ![p] = snap]
    /\ weatherAt' = gNow[p]
    /\ gCalled' = [gCalled EXCEPT ![p] = "ok"]
    /\ wCount' = [wCount EXCEPT !.fetched = @ + 1]
    /\ weatherMu' = "none"
    /\ wpc' = [wpc EXCEPT ![p] = "done"]
    /\ UNCHANGED << exceptWx, wCfg, weather, wClock, gNow, uCfg >>

\* s.weather.Get returns an error or runs into its 12 s timeout
GetWeatherFailed(p) ==
    /\ wpc[p] = "fetch"
    /\ weatherData' = KeptOnError(weatherData)
    /\ gRet' = [gRet EXCEPT ![p] = weatherData']
    /\ gCalled' = [gCalled EXCEPT ![p] = "err"]
    /\ weatherMu' = "none"
    /\ wpc' = [wpc EXCEPT ![p] = "done"]
    /\ UNCHANGED << exceptWx, wCfg, weather, weatherAt, wClock, gNow, uCfg,
                    wCount >>

\* updateWeatherConfigHandler up to s.configMutex.Unlock(): the request is
\* bound, the provider defaulted and the configuration written
UpdateWeatherConfig(p) ==
    /\ wpc[p] \in {"idle", "done"}
    /\ wCount.ops < MaxWeatherOps
    /\ \E req \in WeatherRequests : wCfg' = WithDefaults(req)
    /\ wCount' = [wCount EXCEPT !.ops = @ + 1]
    /\ wpc' = [wpc EXCEPT ![p] = "init"]
    /\ UNCHANGED << exceptWx, weather, weatherData, weatherAt, weatherMu,
                    wClock, gNow, gRet, gCalled, uCfg >>

\* initWeatherProvider: Lock and the three fields set to nil, nil and zero
InitWeatherClear(p) ==
    /\ wpc[p] = "init"
    /\ weatherMu = "none"
    /\ weatherMu' = p
    /\ weather' = NoProvider
    /\ weatherData' = CacheCleared(weatherData)
    /\ weatherAt' = ZeroTime
    /\ wpc' = [wpc EXCEPT ![p] = "read"]
    /\ UNCHANGED << exceptWx, wCfg, wClock, gNow, gRet, gCalled, uCfg, wCount >>

\* cfg := s.config.Weather under the read lock of the configuration
InitWeatherRead(p) ==
    /\ wpc[p] = "read"
    /\ uCfg' = wCfg
    /\ wpc' = [wpc EXCEPT ![p] = "make"]
    /\ UNCHANGED << exceptWx, wCfg, weather, weatherData, weatherAt, weatherMu,
                    wClock, gNow, gRet, gCalled, wCount >>

\* the provider of cfg is made and the lock released; saveConfigToFile and
\* the response follow
InitWeatherMake(p) ==
    /\ wpc[p] = "make"
    /\ weather' = NewProvider(uCfg, wCount.made + 1)
    /\ uCfg' = NoConfig
    /\ wCount' = [wCount EXCEPT !.made = @ + 1]
    /\ weatherMu' = "none"
    /\ wpc' = [wpc EXCEPT ![p] = "done"]
    /\ UNCHANGED << exceptWx, wCfg, weatherData, weatherAt, wClock, gNow, gRet,
                    gCalled >>

WeatherNext ==
    \/ WxTick
    \/ \E p \in Getters : InsightNow(p)
    \/ \E p \in Getters : GetWeatherEnter(p)
    \/ \E p \in Getters : GetWeatherFetched(p)
    \/ \E p \in Getters : GetWeatherFailed(p)
    \/ \E p \in Updaters : UpdateWeatherConfig(p)
    \/ \E p \in Updaters : InitWeatherClear(p)
    \/ \E p \in Updaters : InitWeatherRead(p)
    \/ \E p \in Updaters : InitWeatherMake(p)

WeatherSpecInit ==
    WxInit /\ BaseIdle /\ DecIdle /\ InsIdle /\ CfIdle /\ LkIdle

SpecWeather == WeatherSpecInit /\ [][WeatherNext]_vars

(***************************************************************************)
(* SpecConfig: updateInverterConfigHandler with two requests at a time.    *)
(* UpdateInverterConfig runs under the write lock of the collector from    *)
(* its first to its last statement and is one step here.                   *)
(***************************************************************************)
\* requests of one behaviour
MaxInverterUpdates == 3

Requesters == {"r1", "r2"}

\* ip, port, slave id and timeout (seconds) of a link
InverterParams ==
    { [IP |-> "192.168.1.10", Port |-> 502, SlaveID |-> 1, Timeout |-> 10],
      [IP |-> "192.168.1.11", Port |-> 502, SlaveID |-> 1, Timeout |-> 10],
      [IP |-> "192.168.1.10", Port |-> 1502, SlaveID |-> 2, Timeout |-> 5] }

\* the configuration the server and the collector were made from
FirstParams == [IP |-> "192.168.1.10", Port |-> 502, SlaveID |-> 1, Timeout |-> 10]

\* no request, and no response yet
NoParams == [IP |-> ""]

CfInit ==
    /\ hActive = FirstParams
    /\ hConfig = FirstParams
    /\ hFile = FirstParams
    /\ hpc = [r \in Requesters |-> "idle"]
    /\ hReq = [r \in Requesters |-> NoParams]
    /\ hResp = [r \in Requesters |-> 0]
    /\ hCount = 0

\* c.ShouldBindJSON(&req) fails: 400
BindFails(r) ==
    /\ hpc[r] \in {"idle", "done"}
    /\ hCount < MaxInverterUpdates
    /\ hCount' = hCount + 1
    /\ hReq' = [hReq EXCEPT ![r] = NoParams]
    /\ hResp' = [hResp EXCEPT ![r] = 400]
    /\ hpc' = [hpc EXCEPT ![r] = "done"]
    /\ UNCHANGED << exceptCf, hActive, hConfig, hFile >>

\* the request is bound and the test client made
BindRequest(r) ==
    /\ hpc[r] \in {"idle", "done"}
    /\ hCount < MaxInverterUpdates
    /\ hCount' = hCount + 1
    /\ \E req \in InverterParams : hReq' = [hReq EXCEPT ![r] = req]
    /\ hResp' = [hResp EXCEPT ![r] = 0]
    /\ hpc' = [hpc EXCEPT ![r] = "test"]
    /\ UNCHANGED << exceptCf, hActive, hConfig, hFile >>

\* testClient.Connect(): on an error 400, else testClient.Close()
TestConnect(r) ==
    /\ hpc[r] = "test"
    /\ \E ok \in BOOLEAN :
        IF ok
        THEN /\ hpc' = [hpc EXCEPT ![r] = "apply"]
             /\ UNCHANGED hResp
        ELSE /\ hpc' = [hpc EXCEPT ![r] = "done"]
             /\ hResp' = [hResp EXCEPT ![r] = 400]
    /\ UNCHANGED << exceptCf, hActive, hConfig, hFile, hReq, hCount >>

\* s.collector.UpdateInverterConfig(...): on an error 500 and the active link
\* stays, else the link of the request is the active one
ApplyToCollector(r) ==
    /\ hpc[r] = "apply"
    /\ \E ok \in BOOLEAN :
        IF ok
        THEN /\ hActive' = hReq[r]
             /\ hpc' = [hpc EXCEPT ![r] = "write"]
             /\ UNCHANGED hResp
        ELSE /\ hpc' = [hpc EXCEPT ![r] = "done"]
             /\ hResp' = [hResp EXCEPT ![r] = 500]
             /\ UNCHANGED hActive
    /\ UNCHANGED << exceptCf, hConfig, hFile, hReq, hCount >>

\* the four fields of s.config.Inverter are written under s.configMutex
WriteInverterConfig(r) ==
    /\ hpc[r] = "write"
    /\ hConfig' = hReq[r]
    /\ hpc' = [hpc EXCEPT ![r] = "save"]
    /\ UNCHANGED << exceptCf, hActive, hFile, hReq, hResp, hCount >>

\* saveConfigToFile under the read lock, then 200 with or without a warning
SaveInverterConfig(r) ==
    /\ hpc[r] = "save"
    /\ \E ok \in BOOLEAN : hFile' = IF ok THEN hConfig ELSE hFile
    /\ hResp' = [hResp EXCEPT ![r] = 200]
    /\ hpc' = [hpc EXCEPT ![r] = "done"]
    /\ UNCHANGED << exceptCf, hActive, hConfig, hReq, hCount >>

ConfigNext ==
    \E r \in Requesters :
        \/ BindFails(r)
        \/ BindRequest(r)
        \/ TestConnect(r)
        \/ ApplyToCollector(r)
        \/ WriteInverterConfig(r)
        \/ SaveInverterConfig(r)

ConfigSpecInit ==
    CfInit /\ BaseIdle /\ DecIdle /\ InsIdle /\ WxIdle /\ LkIdle

SpecConfig == ConfigSpecInit /\ [][ConfigNext]_vars

(***************************************************************************)
(* SpecLocks: the lock operations of the acquisition loop, CollectOnce,    *)
(* the inverter configuration update, Stop, an insight request and the     *)
(* weather configuration update, in the order each function makes them.    *)
(* A sync.RWMutex blocks the readers that come after a writer has called   *)
(* Lock and admits them together when that writer unlocks; a waiter of any *)
(* lock is served in the end (the mutexes hand over to a starving waiter). *)
(***************************************************************************)
\* the calls that are under way at a time
MaxActive == 3

LockUsers == {"loop", "once", "upd", "stop", "insight", "wupd"}

\* c.mu of the collector, the mu of the link the collector refers to and of
\* the candidate link of an update, and the two locks of the server
Locks == {"mu", "link1", "link2", "weatherMu", "configMutex"}

\* the sync.RWMutex among them
RWLocks == {"mu", "configMutex"}

ActiveLink == "link1"

CandidateLink == "link2"

\* a section of a lock: instructions ins between its acquisition and release;
\* the release stands for the return of what is called inside
Locked(l, ins) == << << "lock", l >> >> \o ins \o << << "unlock", l >> >>

RLocked(l, ins) == << << "rlock", l >> >> \o ins \o << << "runlock", l >> >>

\* the methods of modbus.Client on link l: c.mu.Lock(), defer c.mu.Unlock().
\* Connect, the reads of a sweep, Close and Reconnect (Close, then Connect)
\* are rows of such sections and one of them stands for a row
ClientCall(l) == Locked(l, << >>)

\* Start: the writes of isCollecting; collect: the client calls under the
\* read lock, and after a sweep the write of latestData
LoopPaths ==
    { Locked("mu", << >>),
      RLocked("mu", ClientCall(ActiveLink)),
      RLocked("mu", ClientCall(ActiveLink)) \o Locked("mu", << >>) }

\* CollectOnce: IsConnected, Connect and the sweep without c.mu, then the
\* write of latestData
OncePaths ==
    { ClientCall(ActiveLink),
      ClientCall(ActiveLink) \o Locked("mu", << >>) }

\* saveConfigToFile
SavePath == RLocked("configMutex", << >>)

\* updateInverterConfigHandler after its test client, which no one shares:
\* UpdateInverterConfig with Connect, the sweep and Close of the candidate,
\* or with Close of the replaced link, the configuration write and the save
InverterUpdatePaths ==
    { Locked("mu", ClientCall(CandidateLink)),
      Locked("mu", ClientCall(CandidateLink) \o ClientCall(ActiveLink))
          \o Locked("configMutex", << >>) \o SavePath }

\* Stop: Close of the link under c.mu
StopPaths == { Locked("mu", ClientCall(ActiveLink)) }

\* productionInsightsHandler: GetLatestData with its 503, or followed by
\* getWeather, whose unlock follows the return of the provider
InsightPaths ==
    { RLocked("mu", << >>),
      RLocked("mu", << >>) \o Locked("weatherMu", << >>) }

\* faulty variant: the configuration lock is held over initWeatherProvider
WeatherUpdateUnderConfigLock ==
    Locked("configMutex", Locked("weatherMu", RLocked("configMutex", << >>)))
        \o SavePath

\* updateWeatherConfigHandler: the configuration write, initWeatherProvider
\* (the read of the configuration under the weather lock) and the save
WeatherUpdatePath ==
    Locked("configMutex", << >>)
        \o Locked("weatherMu", RLocked("configMutex", << >>))
        \o SavePath

\* the runs of its lock operations a process chooses from
Paths(p) ==
    CASE p = "loop" -> LoopPaths
      [] p = "once" -> OncePaths
      [] p = "upd" -> InverterUpdatePaths
      [] p = "stop" -> StopPaths
      [] p = "insight" -> InsightPaths
      [] p = "wupd" -> { WeatherUpdatePath }

LkInit ==
    /\ lkW = [l \in Locks |-> "none"]
    /\ lkR = [l \in RWLocks |-> {}]
    /\ lkPend = [l \in RWLocks |-> {}]
    /\ lkRq = [l \in RWLocks |-> {}]
    /\ lpath = [p \in LockUsers |-> << >>]
    /\ lpc = [p \in LockUsers |-> 0]

\* the instruction p is at
Running(p) == lpc[p] >= 1

Instr(p) == lpath[p][lpc[p]]

\* the processes of ps are through their instruction: the call of a process
\* is over after its last one
Through(ps) ==
    /\ lpc' = [q \in LockUsers |->
                 IF q \in ps
                 THEN (IF lpc[q] = Len(lpath[q]) THEN 0 ELSE lpc[q] + 1)
                 ELSE lpc[q]]
    /\ lpath' = [q \in LockUsers |->
                   IF q \in ps /\ lpc[q] = Len(lpath[q]) THEN << >>
                   ELSE lpath[q]]

\* p is at an acquisition and does not have the lock yet
Waiting(p) == Running(p) /\ Instr(p)[1] \in {"lock", "rlock"}

\* the locks p holds
Held(p) == {l \in Locks : lkW[l] = p} \cup {l \in RWLocks : p \in lkR[l]}

\* a call of the function begins: a tick, a request
Begin(p) ==
    /\ lpc[p] = 0
    /\ Cardinality({q \in LockUsers : lpc[q] > 0}) < MaxActive
    /\ \E path \in Paths(p) : lpath' = [lpath EXCEPT ![p] = path]
    /\ lpc' = [lpc EXCEPT ![p] = 1]
    /\ UNCHANGED << exceptLk, lkW, lkR, lkPend, lkRq >>

\* Lock of a sync.Mutex
MutexLock(p) ==
    /\ Running(p) /\ Instr(p)[1] = "lock" /\ Instr(p)[2] \notin RWLocks
    /\ lkW[Instr(p)[2]] = "none"
    /\ lkW' = [lkW EXCEPT ![Instr(p)[2]] = p]
    /\ Through({p})
    /\ UNCHANGED << exceptLk, lkR, lkPend, lkRq >>

\* Lock of a sync.RWMutex is called: the readers to come are held back
WriterArrives(p) ==
    /\ Running(p) /\ Instr(p)[1] = "lock" /\ Instr(p)[2] \in RWLocks
    /\ p \notin lkPend[Instr(p)[2]]
    /\ lkPend' = [lkPend EXCEPT ![Instr(p)[2]] = @ \cup {p}]
    /\ UNCHANGED << exceptLk, lkW, lkR, lkRq, lpath, lpc >>

\* Lock of a sync.RWMutex returns: no writer and no reader is inside
WriterLock(p) ==
    /\ Running(p) /\ Instr(p)[1] = "lock" /\ Instr(p)[2] \in RWLocks
    /\ p \in lkPend[Instr(p)[2]]
    /\ lkW[Instr(p)[2]] = "none"
    /\ lkR[Instr(p)[2]] = {}
    /\ lkW' = [lkW EXCEPT ![Instr(p)[2]] = p]
    /\ lkPend' = [lkPend EXCEPT ![Instr(p)[2]] = @ \ {p}]
    /\ Through({p})
    /\ UNCHANGED << exceptLk, lkR, lkRq >>

\* RLock: it returns at once with no writer inside or waiting, else the
\* reader is queued until the writer unlocks
ReaderLock(p) ==
    /\ Running(p) /\ Instr(p)[1] = "rlock"
    /\ p \notin lkRq[Instr(p)[2]]
    /\ IF lkW[Instr(p)[2]] = "none" /\ lkPend[Instr(p)[2]] = {}
       THEN /\ lkR' = [lkR EXCEPT ![Instr(p)[2]] = @ \cup {p}]
            /\ Through({p})
            /\ UNCHANGED lkRq
       ELSE /\ lkRq' = [lkRq EXCEPT ![Instr(p)[2]] = @ \cup {p}]
            /\ UNCHANGED << lkR, lpc, lpath >>
    /\ UNCHANGED << exceptLk, lkW, lkPend >>

\* Unlock of a sync.Mutex
MutexUnlock(p) ==
    /\ Running(p) /\ Instr(p)[1] = "unlock" /\ Instr(p)[2] \notin RWLocks
    /\ lkW' = [lkW EXCEPT ![Instr(p)[2]] = "none"]
    /\ Through({p})
    /\ UNCHANGED << exceptLk, lkR, lkPend, lkRq >>

\* Unlock of a sync.RWMutex: the readers queued behind the writer go in
\* together, and are through their RLock
WriterUnlock(p) ==
    /\ Running(p) /\ Instr(p)[1] = "unlock" /\ Instr(p)[2] \in RWLocks
    /\ LET l == Instr(p)[2] IN
       /\ lkW' = [lkW EXCEPT ![l] = "none"]
       /\ lkR' = [lkR EXCEPT ![l] = lkRq[l]]
       /\ lkRq' = [lkRq EXCEPT ![l] = {}]
       /\ Through({p} \cup lkRq[l])
    /\ UNCHANGED << exceptLk, lkPend >>

\* RUnlock
ReaderUnlock(p) ==
    /\ Running(p) /\ Instr(p)[1] = "runlock"
    /\ lkR' = [lkR EXCEPT ![Instr(p)[2]] = @ \ {p}]
    /\ Through({p})
    /\ UNCHANGED << exceptLk, lkW, lkPend, lkRq >>

\* a step of a call that has begun
LockStep(p) ==
    \/ MutexLock(p) \/ WriterArrives(p) \/ WriterLock(p) \/ ReaderLock(p)
    \/ MutexUnlock(p) \/ WriterUnlock(p) \/ ReaderUnlock(p)

LocksNext ==
    \/ \E p \in LockUsers : Begin(p)
    \/ \E p \in LockUsers : MutexLock(p)
    \/ \E p \in LockUsers : WriterArrives(p)
    \/ \E p \in LockUsers : WriterLock(p)
    \/ \E p \in LockUsers : ReaderLock(p)
    \/ \E p \in LockUsers : MutexUnlock(p)
    \/ \E p \in LockUsers : WriterUnlock(p)
    \/ \E p \in LockUsers : ReaderUnlock(p)

\* the calls return and the locks serve their waiters
LocksFair == \A p \in LockUsers : SF_vars(LockStep(p))

LocksSpecInit == LkInit /\ BaseIdle /\ DecIdle /\ InsIdle /\ WxIdle /\ CfIdle

SpecLocks == LocksSpecInit /\ [][LocksNext]_vars /\ LocksFair


(***************************************************************************)
(* Properties.                                                             *)
(***************************************************************************)
\* UpdateInverterConfig is between its Lock and the end of its validation
Validating == pc["upd"] \in {"connect", "probe", "rest"}

\* a step of UpdateInverterConfig
UpdStep == pc'["upd"] # pc["upd"]

\* collect is between its RLock and its RUnlock
SweepSection ==
    pc["loop"] \in {"connect", "probe", "rest", "reconnClose", "reconnConnect"}

\* collect has returned from a tick
TickOver == pc["loop"] = "wait"

\* a Reading as a sweep that ran to its end returns it: ReadAllData sets the
\* two labels on every path through the fields after the probe
Complete(d) == d.IsOnline /\ d.OutputType # "" /\ d.RunningStateString # ""

\* C1: a call of UpdateInverterConfig whose connect or validation sweep fails
\* returns an error with the collector's client, reader and latestData (and
\* the object it points to) as they were when it was called, no step of it
\* before the swap touches them or the active link, and the candidate link is
\* not left connected.
C1_FailedUpdateChangesNothing ==
    [][UpdStep =>
         /\ pc["upd"] \in {"idle", "connect", "probe", "rest", "closeNew"} =>
              /\ c_client' = c_client
              /\ c_sungrow' = c_sungrow
              /\ latestData' = latestData
              /\ links'[c_client] = links[c_client]
              /\ latestData # 0 => heap'[latestData] = heap[latestData]
         /\ (pc'["upd"] = "idle" /\ uRet' \in {"errConnect", "errRead"}) =>
              /\ c_client' = uSnap.client
              /\ c_sungrow' = uSnap.sungrow
              /\ latestData' = uSnap.latest
              /\ ~links'[uNew].client]_vars

\* a validation sweep failed on a candidate that had connected, with a Reading
\* published before the call
C1_Witness ==
    /\ pc["upd"] = "idle"
    /\ uRet = "errRead"
    /\ uSnap.latest # 0
    /\ latestData = uSnap.latest
    /\ c_client = uSnap.client

\* C2: the active link is replaced only by UpdateInverterConfig, holding the
\* lock, with the candidate connected and its full sweep successful; the old
\* link is closed inside the same critical section; on success client, reader
\* and latestData are the candidate's; and a tick sweep always reads through
\* the collector's current link, the candidate after a successful update.
C2_SwapOnlyAfterValidation ==
    /\ [](/\ pc["upd"] \in {"closeOld", "setClient", "setSungrow"} =>
               /\ muW = "upd"
               /\ muR = {}
               /\ links[uNew].client
               /\ Complete(heap[data["upd"]])
          /\ SweepSection => lClient = c_client /\ lSungrow = c_sungrow
          /\ (SweepSection /\ uRet = "ok") => lClient = uNew /\ lSungrow = uNew)
    /\ [][/\ (c_client' # c_client \/ c_sungrow' # c_sungrow) =>
               /\ pc["upd"] \in {"setClient", "setSungrow"}
               /\ c_client' = uNew
               /\ c_sungrow' \in {c_sungrow, uNew}
          /\ (pc["upd"] = "closeOld" /\ UpdStep) =>
               ~links'[uOld].client /\ muW' = "upd"
          /\ (uRet' = "ok" /\ uRet # "ok") =>
               /\ c_client' = uNew
               /\ c_sungrow' = uNew
               /\ latestData' = data["upd"]
               /\ Complete(heap'[latestData'])]_vars

\* after a successful update a tick sweep runs on the candidate link
C2_Witness ==
    /\ uRet = "ok"
    /\ uNew # uOld
    /\ pc["loop"] = "rest"
    /\ lSungrow = uNew
    /\ ~links[uOld].client

\* C3: while UpdateInverterConfig connects and validates, GetLatestData and
\* IsCollecting can complete.
C3_ReadersNotStalled ==
    (Validating /\ CanCall) => (ENABLED GetLatestData /\ ENABLED IsCollecting)

\* C4: a tick reconnects at most once and runs at most two sweeps, the second
\* only after the reconnect; when its first probe failed it has reconnected
\* exactly once before it gives up.
C4_OneReconnectOneRetry ==
    /\ tick.reconnects <= 1
    /\ tick.sweeps <= 2
    /\ tick.sweeps = 2 => tick.reconnects = 1 /\ tick.firstErr
    /\ tick.firstErr => tick.reconnects = 1 \/ pc["loop"] = "reconnClose"
    /\ (TickOver /\ tick.firstErr) => tick.reconnects = 1
    /\ tick.reconnects = 1 => tick.firstErr

\* a tick gave up after the reconnect and the failed retry
C4_Witness ==
    TickOver /\ tick.sweeps = 2 /\ tick.lastErr /\ tick.reconnects = 1

\* C5: after a tick whose sweep and retry both failed, latestData is the
\* Reading of the failed sweep: online is false.
C5_OutagePublished ==
    (TickOver /\ tick.sweeps = 2 /\ tick.lastErr) =>
        (latestData # 0 /\ ~heap[latestData].IsOnline)

\* C6: once latestData is set it is never nil again, the object it points to
\* keeps its values, and it is replaced only by the Reading of a sweep that
\* succeeded.
C6_LastGoodKept ==
    [][latestData # 0 =>
         /\ latestData' # 0
         /\ heap'[latestData'].IsOnline
         /\ latestData' = latestData => heap'[latestData] = heap[latestData]]_vars

\* a tick failed twice after a Reading had been published
C6_Witness ==
    /\ TickOver /\ tick.sweeps = 2 /\ tick.lastErr
    /\ latestData # 0
    /\ heap[latestData].IsOnline

\* C7: what latestData and a pointer returned by GetLatestData point to is a
\* complete Reading, and no step changes an object while either points to it.
C7_NeverPartiallyVisible ==
    /\ [](/\ latestData # 0 => Complete(heap[latestData])
          /\ observed # 0 => Complete(heap[observed]))
    /\ [][\A id \in HeapIds :
            ((id = latestData \/ id = observed) /\ (id = latestData' \/ id = observed'))
                => heap'[id] = heap[id]]_vars

\* a sweep is under way on its own object while a complete Reading is published
C7_Witness ==
    /\ latestData # 0
    /\ \E p \in Procs :
         /\ data[p] \notin {0, latestData}
         /\ pc[p] = "rest"
         /\ ~Complete(heap[data[p]])

(***************************************************************************)
(* Properties of one sweep (SpecSweep).                                    *)
(***************************************************************************)
\* the name of field i in the failure list
FieldName(i) ==
    CASE i = 1 -> "serial_number"
      [] i = 2 -> "device_type"
      [] i = 3 -> "nominal_power"
      [] i = 4 -> "output_type"
      [] i = 5 -> "daily_energy"
      [] i = 6 -> "total_energy"
      [] i = 7 -> "temperature"
      [] i = 8 -> "mppt1_voltage"
      [] i = 9 -> "mppt1_current"
      [] i = 10 -> "mppt2_voltage"
      [] i = 11 -> "mppt2_current"
      [] i = 12 -> "total_dc_power"
      [] i = 13 -> "grid_voltage"
      [] i = 14 -> "grid_frequency"
      [] i = 15 -> "grid_current"
      [] i = 16 -> "total_active_power"
      [] i = 17 -> "reactive_power"
      [] i = 18 -> "power_factor"
      [] i = 19 -> "running_state"
      [] i = 20 -> "fault_code"

\* what a Reading holds for field i
FieldValue(i, d) ==
    CASE i = 1 -> d.SerialNumber
      [] i = 2 -> d.DeviceTypeCode
      [] i = 3 -> d.NominalPower
      [] i = 4 -> d.OutputType
      [] i = 5 -> d.DailyEnergy
      [] i = 6 -> d.TotalEnergy
      [] i = 7 -> d.Temperature
      [] i = 8 -> d.MPPT1Voltage
      [] i = 9 -> d.MPPT1Current
      [] i = 10 -> d.MPPT2Voltage
      [] i = 11 -> d.MPPT2Current
      [] i = 12 -> d.TotalDCPower
      [] i = 13 -> d.GridVoltage
      [] i = 14 -> d.GridFrequency
      [] i = 15 -> d.GridCurrent
      [] i = 16 -> d.TotalActivePower
      [] i = 17 -> d.ReactivePower
      [] i = 18 -> d.PowerFactor
      [] i = 19 -> << d.RunningState, d.RunningStateString >>
      [] i = 20 -> d.FaultCode

\* the zero default of field i
ZeroValue(i) == FieldValue(i, NewInverterData(0))

\* the value of field i that the registers of the device of cfg encode
W(cfg, a) == DeviceWord(cfg, a)

ExpectedValue(i, cfg) ==
    CASE i = 1 -> << 83, 78, CfgDigit(cfg) >>
      [] i = 2 -> W(cfg, 4999)
      [] i = 3 -> [num |-> W(cfg, 5000), div |-> 10]
      [] i = 4 -> "Three Phase 4 Lines"
      [] i = 5 -> [num |-> W(cfg, 5002), div |-> 10]
      [] i = 6 -> [num |-> [hi |-> W(cfg, 5004), lo |-> W(cfg, 5003)], div |-> 10]
      [] i = 7 -> [num |-> 0 - CfgDigit(cfg), div |-> 10]
      [] i = 8 -> [num |-> W(cfg, 5010), div |-> 10]
      [] i = 9 -> [num |-> W(cfg, 5011), div |-> 100]
      [] i = 10 -> [num |-> W(cfg, 5012), div |-> 10]
      [] i = 11 -> [num |-> W(cfg, 5013), div |-> 100]
      [] i = 12 -> [hi |-> W(cfg, 5017), lo |-> W(cfg, 5016)]
      [] i = 13 -> [num |-> W(cfg, 5018), div |-> 10]
      [] i = 14 -> [num |-> W(cfg, 5021), div |-> 10]
      [] i = 15 -> [num |-> W(cfg, 5022), div |-> 10]
      [] i = 16 -> [hi |-> W(cfg, 5031), lo |-> W(cfg, 5030)]
      [] i = 17 -> W(cfg, 5032) - 65536
      [] i = 18 -> [num |-> W(cfg, 5034), div |-> 1000]
      [] i = 19 -> << 5120, "MPPT" >>
      [] i = 20 -> W(cfg, 5039)

ErrorNames(d) == {d.Errors[k] : k \in 1..Len(d.Errors)}

\* C8: when exactly the read of one field f other than the probe fails, the
\* Reading returned is online, holds the zero default for f, names f in
\* Errors and holds the decoded value of every other field.
C8_PartialFailure ==
    \A f \in NonProbe :
        (rdPos = Returned /\ rdFailed = {f}) =>
            /\ rdData.IsOnline
            /\ FieldValue(f, rdData) = ZeroValue(f)
            /\ FieldName(f) \in ErrorNames(rdData)
            /\ \A g \in FieldIds \ {f} :
                 FieldValue(g, rdData) = ExpectedValue(g, rdLink.cfg)

\* C9: when the probe fails ReadAllData has returned, with the error and
\* online false, and no other register has been requested.
C9_ProbeFailureReturns ==
    1 \in rdFailed =>
        /\ rdPos = Returned
        /\ rdErr
        /\ ~rdData.IsOnline
        /\ \A i \in NonProbe : rdAttempts[i] = 0
        /\ rdAttempts[1] = 1

\* the device failed the probe on a connected link
C9_Witness == 1 \in rdFailed /\ rdLink.client /\ rdPos = Returned

\* C10: after a successful probe the fields are requested in order, each one
\* once whatever reads failed before it, and ReadAllData returns without an
\* error once all have been requested.
C10_EveryFieldAttemptedOnce ==
    (rdPos >= 2 /\ 1 \notin rdFailed) =>
        /\ rdData.IsOnline
        /\ ~rdErr
        /\ \A i \in FieldIds : rdAttempts[i] = IF i < rdPos THEN 1 ELSE 0
        /\ rdFailed \subseteq 2..(rdPos - 1)

\* a sweep returned after as many failed reads as the device may fail, the
\* first and the last field among them
C10_Witness ==
    /\ rdPos = Returned
    /\ ~rdErr
    /\ Cardinality(rdFailed) = MaxSweepFaults
    /\ 2 \in rdFailed
    /\ \A i \in NonProbe : rdAttempts[i] = 1

(***************************************************************************)
(* Properties of Start, cancellation and Stop (Spec).                      *)
(***************************************************************************)
\* collect has been entered and has not returned
InCollect ==
    pc["loop"] \in {"connect", "probe", "rest", "reconnClose", "reconnConnect",
                    "publish", "handoff"}

\* Start is past its first step and has not returned
Polling == pc["loop"] \notin {"idle", "returned"}

\* C11: Start on an enabled collector runs one collection (collect: the sweep
\* with its one retry) before it first waits for the ticker: every wait for
\* the ticker comes after one more call of collect than ticks were taken, the
\* first wait after exactly one; and when the sweep of that first collection
\* succeeded, latestData is set when the first wait begins.
C11_InitialSweepBeforeFirstWait ==
    /\ (InCollect \/ TickOver) => tick.n = tick.waits + 1
    /\ pc["loop"] = "collect" => tick.n = tick.waits
    /\ (TickOver /\ tick.waits = 0) =>
          /\ tick.n = 1
          /\ (tick.sweeps >= 1 /\ ~tick.lastErr) => latestData # 0
    /\ (enabled /\ Polling) => isCollecting

\* the first wait for the ticker, after an initial sweep that succeeded
C11_Witness ==
    /\ TickOver
    /\ tick.waits = 0
    /\ tick.sweeps = 1
    /\ ~tick.lastErr
    /\ latestData # 0
    /\ heap[latestData].Timestamp = 1

\* C12: the loop exits only from the select between two calls of collect:
\* no step takes Start from inside collect to its return, whether the context
\* is cancelled or not, and when Start returns collect holds no lock and no
\* Reading.
C12_NoExitMidSweep ==
    [][/\ InCollect => pc'["loop"] # "returned"
       /\ pc["loop"] = "collect" => pc'["loop"] # "returned"
       /\ (Polling /\ pc'["loop"] = "returned") =>
            /\ TickOver
            /\ cancelled
            /\ "loop" \notin muR
            /\ data["loop"] = 0
            /\ tick.n = tick.waits + 1]_vars

\* the context was cancelled while a sweep is under way
C12_Witness ==
    /\ cancelled
    /\ pc["loop"] = "rest"
    /\ "loop" \in muR

\* C13: when Start has returned after a cancellation the active link is not
\* connected and the database and the publisher are closed.
C13_ExitClosesHandles ==
    (enabled /\ cancelled /\ pc["loop"] = "returned") =>
        (~links[c_client].client /\ ~dbOpen /\ ~pubOpen)

\* C14: after Stop the collector is stopped: isCollecting is false and no
\* sweep is under way.
C14_StoppedAfterStop ==
    stopped => (~isCollecting /\ ~InCollect /\ pc["loop"] # "collect")

\* C16: the Reading of a tick is published as latestData before the hand-off
\* and the hand-off leaves it published; db.SaveReading and publisher.Publish
\* are both called whatever the save returned; and after a failed save or a
\* failed publish collect has returned to the ticker, whose next tick starts
\* a collection.
C16_HandOffFailuresNotFatal ==
    /\ [](/\ pc["loop"] = "handoff" => latestData # 0 /\ Complete(heap[latestData])
          /\ tick.saved # "none" => tick.sent # "none" /\ ~InCollect
          /\ (TickOver /\ (tick.saved = "err" \/ tick.sent = "err")) =>
                /\ latestData # 0
                /\ isCollecting
                /\ "loop" \notin muR
                /\ tick.waits < MaxCalls => ENABLED LoopTick)
    /\ [][/\ (pc["loop"] = "publish" /\ pc'["loop"] # "publish") =>
               latestData' = data["loop"] /\ pc'["loop"] = "handoff"
          /\ (pc["loop"] = "handoff" /\ pc'["loop"] # "handoff") =>
               /\ latestData' = latestData
               /\ heap'[latestData] = heap[latestData]
               /\ tick'.saved # "none"
               /\ tick'.sent # "none"
               /\ pc'["loop"] = "wait"]_vars

\* the save failed on an open database, the publisher was called all the same
\* and the next tick has begun its collection
C16_Witness ==
    /\ dbOpen
    /\ tick.n = 1
    /\ tick.waits = 1
    /\ tick.saved = "err"
    /\ tick.sent = "ok"
    /\ pc["loop"] = "collect"
    /\ latestData # 0

(***************************************************************************)
(* SpecLive: the loop with its goroutine scheduled.  The goroutine of Start *)
(* goes on whenever it can, and a call of UpdateInverterConfig that holds  *)
(* the lock goes on to its return.                                         *)
(***************************************************************************)
\* a step of collect, of which at most one is enabled at a time
LoopStep ==
    \/ CollectBegin \/ CollectConnect \/ CollectProbe \/ CollectRest
    \/ ReconnClose \/ ReconnConnect \/ CollectPublish \/ CollectHandOff

\* a step of UpdateInverterConfig after its Lock
UpdRun ==
    \/ UpdConnect \/ UpdProbe \/ UpdRest \/ UpdCloseNew \/ UpdCloseOld
    \/ UpdSetClient \/ UpdSetSungrow

\* a goroutine that can take a step takes one
Scheduled == WF_vars(LoopStep \/ UpdRun)

\* the steps that bear on the progress of the loop: its own, cancellation,
\* Stop, and UpdateInverterConfig, which holds the lock the loop waits for
LiveNext ==
    \/ StartDisabled \/ StartEnabled \/ LoopStep \/ LoopTick \/ LoopExit
    \/ Cancel \/ Stop \/ UpdCall \/ UpdRun

SpecLive == Init /\ [][LiveNext]_vars /\ Scheduled

\* a call of collect returned without a Reading: Connect, the probe and its
\* retry, or Reconnect failed
TickFailed ==
    /\ TickOver
    /\ tick.n >= 1
    /\ tick.sweeps = 0 \/ tick.lastErr \/ (tick.firstErr /\ tick.sweeps = 1)

\* C15: a tick in which Connect, the probe, Reconnect or the retry failed
\* ends in the select of Start with the loop still collecting, collect's lock
\* released and the next tick able to start a collection; and a tick taken
\* from the ticker is served: its collection begins (as long as the model has
\* a call left for it) and returns to the select.
C15_FailuresNeverStopPolling ==
    /\ [](/\ TickFailed =>
               /\ isCollecting
               /\ "loop" \notin muR
               /\ data["loop"] = 0
               /\ tick.waits < MaxCalls => ENABLED LoopTick
          /\ (InCollect /\ tick.n >= 1) => isCollecting)
    /\ ((InCollect \/ pc["loop"] = "collect")
            ~> (TickOver \/ (pc["loop"] = "collect" /\ ~CanCall)))

\* the tick after a tick that failed twice is being served
C15_Witness ==
    /\ tick.n = 2
    /\ tick.waits = 1
    /\ pc["loop"] = "probe"
    /\ faults >= 2
    /\ ~cancelled

(***************************************************************************)
(* Properties of the link (SpecLink).                                      *)
(***************************************************************************)
\* the callers inside a method, between its Lock and its Unlock
InsideLink == {t \in Callers : cpc[t] \in {"body", "await", "unlock"}}

\* C17: the methods of a link exclude one another: at most one caller is
\* inside a method and it holds the mutex; so at most one request is in
\* flight, it was sent by the holder of the mutex, and the channel it is on is
\* open and is the one c.client points to.
C17_LinkSerializesCalls ==
    /\ Cardinality(InsideLink) <= 1
    /\ \A t \in InsideLink : cl_mu = t
    /\ cl_mu # "none" => cl_mu \in InsideLink
    /\ Cardinality(inflight) <= 1
    /\ \A r \in inflight :
         /\ cl_mu = r.by
         /\ cpc[r.by] = "await"
         /\ r.ch \in channels
         /\ r.ch = cl_client

\* a request is in flight while the other caller waits to close the link
C17_Witness ==
    \E t, u \in Callers :
        /\ t # u
        /\ cpc[t] = "await"
        /\ inflight # {}
        /\ cop[u] = "Close"
        /\ cpc[u] = "lock"

\* a step of caller t that runs the body of Connect
ConnectStep(t) == cpc[t] = "body" /\ cop[t] = "Connect" /\ cpc'[t] = "unlock"

\* C18: Connect on a link that is connected returns success, opens no channel
\* and leaves c.client and the open channels as they were; and Connect on a
\* link that is not connected, when it succeeds, leaves it connected, with the
\* one channel it opened.
C18_ConnectIdempotent ==
    [][\A t \in Callers :
         ConnectStep(t) =>
            /\ cl_client # 0 =>
                 /\ cres'[t] = "ok"
                 /\ cnew'[t] = 0
                 /\ cl_client' = cl_client
                 /\ channels' = channels
                 /\ nextChannel' = nextChannel
            /\ (cl_client = 0 /\ cres'[t] = "ok") =>
                 /\ cl_client' = cnew'[t]
                 /\ channels' = {cl_client'}
            /\ cres'[t] = "err" => cl_client' = 0 /\ channels' = channels]_vars

\* Connect has returned success on a link another call had connected
C18_Witness ==
    \E t \in Callers :
        /\ cop[t] = "Connect"
        /\ ctop[t] = "Connect"
        /\ cpc[t] = "unlock"
        /\ cres[t] = "ok"
        /\ cnew[t] = 0
        /\ cl_client = 1
        /\ nextChannel = 2

\* C19: a link never has two open channels, and every open channel is the one
\* c.client points to; the Close of Reconnect leaves no channel open, and
\* its Connect opens a channel only when none is open.
C19_ReconnectReleasesFirst ==
    /\ [](/\ Cardinality(channels) <= 1
          /\ channels = IF cl_client = 0 THEN {} ELSE {cl_client})
    /\ [][\A t \in Callers :
            /\ (ctop[t] = "Reconnect" /\ cop[t] = "Close" /\ cpc[t] = "body"
                /\ cpc'[t] = "unlock") => (channels' = {} /\ cl_client' = 0)
            /\ (ctop[t] = "Reconnect" /\ cop[t] = "Close" /\ cpc[t] = "unlock"
                /\ cpc'[t] # "unlock") => (cop'[t] = "Connect" /\ cpc'[t] = "lock")
            /\ (ConnectStep(t) /\ cnew'[t] # 0) =>
                  (channels = {} /\ channels' = {cnew'[t]})]_vars

\* Reconnect has replaced a channel by a new one while the other caller is
\* in a call of its own
C19_Witness ==
    \E t, u \in Callers :
        /\ t # u
        /\ ctop[t] = "Reconnect"
        /\ cop[t] = "Connect"
        /\ cpc[t] = "unlock"
        /\ cnew[t] >= 2
        /\ channels = {cnew[t]}
        /\ ctop[u] \in {"Connect", "Reconnect"}
        /\ cpc[u] = "lock"

(***************************************************************************)
(* Properties of the sweeps of the collector (Spec).                       *)
(***************************************************************************)
\* the goroutines inside a call of ReadAllData
Sweeping == {p \in Procs : pc[p] \in {"probe", "rest"}}

\* C20: at most one ReadAllData sweep is under way at any time, whichever of
\* the loop, CollectOnce and UpdateInverterConfig runs it.
C20_SweepsNeverOverlap == Cardinality(Sweeping) <= 1
(***************************************************************************)
(* Properties of the decoders (SpecDecode).                                *)
(***************************************************************************)
\* C21: a 32-bit value is built from two words low word first: the unsigned
\* value of the words w0, w1 is w0 + 65536 * w1 (<<16, 0>> gives 16 and
\* <<0, 1>> gives 65536), and the signed value is the number in
\* -2^31 .. 2^31 - 1 that is congruent to it modulo 2^32.
C21_LowWordFirst ==
    /\ (dOut.kind = "uint32" /\ dOut.st = "value") =>
          /\ dOut.val.lo \in 0..65535 /\ dOut.val.hi \in 0..65535
          /\ dOut.val.lo = dRegs[1]
          /\ dOut.val.hi = dRegs[2]
          /\ (dRegs[2] < 32768) =>
                (dOut.val.lo + 65536 * dOut.val.hi = dRegs[1] + 65536 * dRegs[2])
          /\ (dRegs = << 16, 0 >>) => (dOut.val.lo + 65536 * dOut.val.hi = 16)
          /\ (dRegs = << 0, 1 >>) => (dOut.val.lo + 65536 * dOut.val.hi = 65536)
    /\ (dOut.kind = "int32" /\ dOut.st = "value") =>
          /\ dOut.val >= -2147483647 - 1
          /\ dOut.val <= 2147483647
          /\ dOut.val % 65536 = dRegs[1]
          /\ ((dOut.val - dRegs[1]) \div 65536) % 65536 = dRegs[2]
          /\ (dOut.val < 0) <=> (dRegs[2] >= 32768)

\* the words <<0, 1>> have been decoded as an unsigned 32-bit value
C21_Witness ==
    /\ dRegs = << 0, 1 >>
    /\ dOut.kind = "uint32"
    /\ dOut.st = "value"

\* C22: a string is the bytes of the words in word order, the high byte of
\* each word first, without the NUL bytes at its end and with every other
\* NUL byte kept: the bytes 0x53 0x4E 0 0 give "SN".
C22_StringKeepsInteriorNul ==
    (dOut.kind = "string") =>
        LET v == dOut.val
            n == Len(dOut.val)
        IN  /\ n <= 2 * Len(dRegs)
            /\ \A i \in 1..Len(dRegs) :
                  /\ (2 * i - 1 <= n) => (v[2 * i - 1] = dRegs[i] \div 256)
                  /\ (2 * i <= n) => (v[2 * i] = dRegs[i] % 256)
                  /\ (2 * i - 1 > n) => (dRegs[i] \div 256 = 0)
                  /\ (2 * i > n) => (dRegs[i] % 256 = 0)
            /\ n = 0 \/ v[n] # 0
            /\ (dRegs = << 21326, 0 >>) => (v = << 83, 78 >>)
            /\ (dRegs = << 21248, 78 >>) => (v = << 83, 0, 0, 78 >>)

\* a reply with NUL bytes before its last non-NUL byte and one after it
C22_Witness ==
    /\ dRegs = << 21248, 21248 >>
    /\ dOut.kind = "string"
    /\ dOut.val = << 83, 0, 83 >>

\* C23: a reply whose length is not the number of words of the field is
\* answered by an error: no value is made of it and the reader does not panic.
C23_MismatchIsAnError ==
    (dOut.st # "none" /\ Len(dRegs) # dOut.want) => (dOut.st = "error")
(***************************************************************************)
(* Properties of the insight handler (SpecInsight).                        *)
(***************************************************************************)
\* the handler has answered 200
Answered == iResp.code = 200

\* the rows of the last 30 days whose minute of the day is in the half-hour
\* of the request
BucketRows ==
    LET bucketStart == ((iNow % 1440) \div 30) * 30
    IN  {k \in 1..Len(iRows) :
            /\ iRows[k].Timestamp >= iNow - 30 * 1440
            /\ iRows[k].Timestamp <= iNow
            /\ iRows[k].Timestamp % 1440 >= bucketStart
            /\ iRows[k].Timestamp % 1440 < bucketStart + 30}

RECURSIVE PowerOf(_)
PowerOf(ks) ==
    IF ks = {} THEN 0
    ELSE LET k == CHOOSE j \in ks : TRUE
         IN  iRows[k].TotalActivePower + PowerOf(ks \ {k})

\* C24: with a weather snapshot daylight is sunrise < now < sunset, strict at
\* both ends; without one it is 6 <= local hour < 18.
C24_DaylightGate ==
    Answered =>
        /\ (iWeather # NoWeather) =>
              (iResp.daylight <=> (iWeather.Sunrise < iNow /\ iNow < iWeather.Sunset))
        /\ (iWeather = NoWeather) =>
              (iResp.daylight <=> ((iNow % 1440) \div 60 \in 6..17))

\* a request at the minute of the sunrise of its snapshot, in the sixth hour
C24_Witness ==
    /\ Answered
    /\ iWeather # NoWeather
    /\ iWeather.Sunrise = iNow
    /\ ~iResp.daylight

\* C25: without daylight the status is night and nothing is compared: the
\* ratio is 0 and no weather label is made, whatever the samples, the
\* average, the power and the weather are.
C25_NightNoComparison ==
    (Answered /\ ~iResp.daylight) =>
        /\ iResp.status = "night"
        /\ iResp.ratio.num = 0
        /\ iResp.weather_label = ""

\* a night request with enough history, power and a snapshot
C25_Witness ==
    /\ Answered
    /\ ~iResp.daylight
    /\ iResp.samples >= 20
    /\ iResp.expected_avg_w.num > 0
    /\ iResp.actual_power_w > 0
    /\ iWeather # NoWeather
    /\ iResp.status = "night"

\* C26: the samples counted are those of the window whose minute of the day
\* m has bucketStart <= m < bucketStart + 30, bucketStart = floor(now's
\* minute / 30) * 30: for a request at 14:25 a sample of 14:07 is counted and
\* one of 14:31 is not.  The average is the mean of the counted samples and
\* the count is their number.
C26_BucketIsHalfOpen ==
    Answered =>
        /\ iResp.samples = Cardinality(BucketRows)
        /\ (iResp.samples = 0) => (iResp.expected_avg_w.num = 0)
        /\ (iResp.samples > 0) =>
              (iResp.expected_avg_w.num * iResp.samples
                  = PowerOf(BucketRows) * iResp.expected_avg_w.div)
        /\ \A n, m \in 0..20 : \A p \in {0, 400} :
              (/\ iNow = Midnight + 865
               /\ iRows = RowsOf(Midnight - 1440 + 847, 1000, n)
                              \o RowsOf(Midnight - 1440 + 871, p, m))
                  => (iResp.samples = n)

\* a request at 14:25 over twenty samples of 14:07 and twenty of 14:31
C26_Witness ==
    /\ Answered
    /\ iNow = Midnight + 865
    /\ iRows = RowsOf(Midnight - 1440 + 847, 1000, 20)
                   \o RowsOf(Midnight - 1440 + 871, 400, 20)
    /\ iResp.samples = 20
    /\ iResp.expected_avg_w.num = 1000 * iResp.expected_avg_w.div

\* C27: in daylight fewer than 20 samples or an average that is not positive
\* give insufficient_history and no ratio; 20 samples with a positive average
\* are compared.
C27_MinSamples ==
    (Answered /\ iResp.daylight) =>
        /\ (iResp.samples < 20 \/ iResp.expected_avg_w.num <= 0) =>
              (iResp.status = "insufficient_history" /\ iResp.ratio.num = 0)
        /\ (iResp.samples = 20 /\ iResp.expected_avg_w.num > 0) =>
              iResp.status \in {"normal", "low_power_weather", "low_power_unexpected"}

\* exactly twenty samples with a positive average have been compared
C27_Witness ==
    /\ Answered
    /\ iResp.daylight
    /\ iResp.samples = 20
    /\ iResp.expected_avg_w.num > 0
    /\ iResp.status = "normal"

\* C28: in daylight with enough history the ratio is the actual power over
\* the average; the status is normal exactly when the ratio is at least 0.4;
\* below 0.4 it is low_power_weather when there is a weather label and
\* low_power_unexpected when there is none.
C28_RatioThreshold ==
    (/\ Answered
     /\ iResp.daylight
     /\ iResp.samples >= 20
     /\ iResp.expected_avg_w.num > 0) =>
        /\ iResp.ratio.div > 0
        /\ iResp.ratio.num * iResp.expected_avg_w.num
              = iLatest * iResp.expected_avg_w.div * iResp.ratio.div
        /\ (iResp.status = "normal") <=> (10 * iResp.ratio.num >= 4 * iResp.ratio.div)
        /\ (10 * iResp.ratio.num < 4 * iResp.ratio.div) =>
              (iResp.status = IF iResp.weather_label # "" THEN "low_power_weather"
                              ELSE "low_power_unexpected")

\* a reading of 399 W against an average of 1000 W without a snapshot
C28_Witness ==
    /\ Answered
    /\ iLatest = 399
    /\ iResp.expected_avg_w.num = 1000 * iResp.expected_avg_w.div
    /\ iWeather = NoWeather
    /\ iResp.status = "low_power_unexpected"

\* a snapshot of a clear sky: no rain, no cloud, condition Clear
ClearSky ==
    /\ iWeather # NoWeather
    /\ iWeather.Condition = << 67, 108, 101, 97, 114 >>
    /\ iWeather.Rain1h = 0
    /\ iWeather.Rain3h = 0
    /\ iWeather.Clouds = 0

\* C29: a reading below the threshold under a snapshot of a clear sky is
\* low_power_unexpected: low_power_weather needs storm, rain, fog or cloud.
C29_ClearSkyIsUnexpected ==
    (Answered /\ ClearSky /\ iResp.status \in {"low_power_weather", "low_power_unexpected"})
        => (iResp.status = "low_power_unexpected")

\* C30: the label is that of the first of thunderstorm, heavy rain, rain,
\* fog, overcast (cloud >= 80), cloudy (>= 50), partly cloudy (> 0) and clear
\* that the snapshot satisfies; fog has a label of its own.
C30_LabelPrecedence ==
    (/\ Answered
     /\ iWeather # NoWeather
     /\ iResp.status \in {"normal", "low_power_weather", "low_power_unexpected"}) =>
        LET d == iWeather
            l == iResp.weather_label
            heavy == d.Rain1h >= 50 \/ d.Rain3h >= 150
            rain == d.Rain1h >= 10 \/ d.Rain3h >= 30
            clouds == {"céu encoberto", "nublado", "poucas nuvens", "céu limpo"}
        IN  IF d.Condition = << 84, 104, 117, 110, 100, 101, 114, 115, 116, 111, 114, 109 >>
            THEN l = "temporal"
            ELSE IF heavy THEN l = "chuva forte"
            ELSE IF rain THEN l = "chuva"
            ELSE IF d.Condition = << 70, 111, 103 >>
            THEN l \notin clouds \cup {"", "temporal", "chuva forte", "chuva"}
            ELSE IF d.Clouds >= 80 THEN l = "céu encoberto"
            ELSE IF d.Clouds >= 50 THEN l = "nublado"
            ELSE IF d.Clouds > 0 THEN l = "poucas nuvens"
            ELSE l = "céu limpo"
(***************************************************************************)
(* Properties of the swap of the link (Spec).                              *)
(***************************************************************************)
\* C32: once UpdateInverterConfig has returned success, latestData, which is
\* what GetLatestData returns, is never the reading of a tick sweep that ran
\* on the link that was replaced.
C32_NoReadingOfReplacedLink ==
    ~(/\ uRet = "ok"
      /\ pc["upd"] = "idle"
      /\ pc["loop"] = "handoff"
      /\ latestData = data["loop"]
      /\ lSungrow # c_sungrow)

\* C33: while a tick sweep is in progress collect holds the read lock and no
\* writer holds the lock, and the only step that closes the link of the sweep
\* is the Reconnect of the sweep itself: UpdateInverterConfig and Stop do not
\* close it.
C33_NoCloseUnderSweep ==
    [][/\ SweepSection => ("loop" \in muR /\ muW = "none")
       /\ (SweepSection /\ links[lClient].client /\ ~links'[lClient].client)
              => (pc["loop"] = "reconnClose" /\ pc'["loop"] = "reconnConnect")
       /\ (SweepSection /\ pc["upd"] # pc'["upd"]) => FALSE
       /\ (SweepSection /\ ~stopped) => ~stopped']_vars

\* a swap has closed the link of a tick sweep after the sweep had ended and
\* before its reading is stored
C33_Witness ==
    /\ pc["loop"] = "publish"
    /\ uRet = "ok"
    /\ pc["upd"] = "idle"
    /\ lClient # c_client
    /\ ~links[lClient].client
\* C34: after a successful swap the link that was replaced stays closed:
\* nothing connects it again.
C34_ReplacedLinkStaysClosed ==
    (uRet = "ok" /\ pc["upd"] = "idle") => ~links[uOld].client
(***************************************************************************)
(* SpecStop: the loop under a fair select.  Go's select takes one of its   *)
(* ready cases at random, so a ctx.Done() that stays ready is not passed   *)
(* over for ever.                                                          *)
(***************************************************************************)
SelectFair == SF_vars(LoopExit)

SpecStop == Init /\ [][LiveNext]_vars /\ Scheduled /\ SelectFair

\* C36: once the context is cancelled a Start that was called returns, with
\* isCollecting false (the loop of the model can also stand at a collection
\* for which no call is left); after Start has returned the loop runs no
\* sweep and isCollecting stays false; a disabled collector returns from
\* Start without a sweep and isCollecting is never true.
C36_StartReturns ==
    /\ [][(pc["loop"] = "returned") =>
              (pc'["loop"] = "returned" /\ tick' = tick /\ ~isCollecting')]_vars
    /\ [](pc["loop"] = "returned" => ~isCollecting)
    /\ [](~enabled => /\ ~isCollecting
                      /\ tick = NoTick
                      /\ pc["loop"] \in {"idle", "returned"})
    /\ ((cancelled /\ pc["loop"] # "idle")
            ~> (pc["loop"] = "returned" \/ (pc["loop"] = "collect" /\ ~CanCall)))

\* Start has returned after the cancellation, at least one collection done
C36_Witness ==
    /\ cancelled
    /\ enabled
    /\ pc["loop"] = "returned"
    /\ ~isCollecting
    /\ tick.n >= 1

(***************************************************************************)
(* Properties of the OpenWeather snapshot.                                 *)
(***************************************************************************)
\* C39: for a snapshot made by the OpenWeather client the daylight gate is
\* open exactly when the request's instant lies strictly between the sunrise
\* epoch and the sunset epoch of the response, whatever its timezone offset.
C39_DaylightAtRealInstants ==
    (Answered /\ iPayload # NoPayload) =>
        (iResp.daylight <=>
            (iPayload.Sunrise < iNow /\ iNow < iPayload.Sunset))

(***************************************************************************)
(* Properties of the weather cache.                                        *)
(***************************************************************************)
\* getWeather returns to request p
Returns(p) == wpc[p] # "done" /\ wpc'[p] = "done"

\* C31: with a cached snapshot whose weatherAt is less than 10 minutes before
\* the now of the request getWeather returns that snapshot and does not call
\* the provider; at 10 minutes or more, or with no snapshot, it calls the
\* provider; a call that fails returns the snapshot as it was cached (nil if
\* there was none) and leaves the snapshot and its time unchanged; a call
\* that succeeds caches what it returns with the now of the request.
C31_WeatherCache ==
    [][\A p \in Getters :
         /\ (wpc[p] = "call" /\ wpc'[p] # "call" /\ weather # NoProvider) =>
              IF weatherData # NoData /\ gNow[p] - weatherAt < weatherCacheTTL
              THEN /\ Returns(p)
                   /\ gRet'[p] = weatherData
                   /\ gCalled'[p] = "no"
                   /\ weatherData' = weatherData
                   /\ weatherAt' = weatherAt
                   /\ wCount'.fetched = wCount.fetched
              ELSE wpc'[p] = "fetch"
         /\ (wpc[p] = "fetch" /\ gCalled'[p] = "err") =>
              /\ Returns(p)
              /\ gRet'[p] = weatherData
              /\ weatherData' = weatherData
              /\ weatherAt' = weatherAt
         /\ (wpc[p] = "fetch" /\ gCalled'[p] = "ok") =>
              /\ Returns(p)
              /\ gRet'[p] \notin {NoData, weatherData}
              /\ weatherData' = gRet'[p]
              /\ weatherAt' = gNow[p]]_vars

\* a fetch failed after the TTL and the request got the snapshot cached before
C31_Witness ==
    \E p \in Getters :
        /\ wpc[p] = "done"
        /\ gCalled[p] = "err"
        /\ gRet[p] # NoData
        /\ gRet[p] = weatherData
        /\ gNow[p] - weatherAt >= weatherCacheTTL

\* no weather configuration update is between its write of the configuration
\* and the end of its initWeatherProvider
NoUpdateRunning == \A u \in Updaters : wpc[u] \in {"idle", "done"}

\* C38: the cached snapshot is always one of the provider in s.weather, and it
\* is nil exactly when its time is zero, so what getWeather returns is nil or
\* a snapshot fetched from the provider in place at the return; while a fetch
\* is in flight the fetching request holds the weather lock and the provider
\* is not replaced; with the configuration disabled and no update running
\* s.weather is nil, and with s.weather nil getWeather returns nil.
C38_NoSnapshotOfReplacedProvider ==
    /\ [](weatherData # NoData =>
              (weather # NoProvider /\ weatherData.by = weather.id))
    /\ []((weatherData = NoData) <=> (weatherAt = ZeroTime))
    /\ []((NoUpdateRunning /\ ~wCfg.Enabled) => weather = NoProvider)
    /\ [][\A p \in Getters :
            /\ Returns(p) => (gRet'[p] = NoData \/ gRet'[p].by = weather'.id)
            /\ (Returns(p) /\ weather = NoProvider) => gRet'[p] = NoData
            /\ wpc[p] = "fetch" => (weatherMu = p /\ weather' = weather)]_vars

\* a request got a snapshot of the second provider after an update replaced
\* the first one, of which the other request holds a snapshot
C38_Witness ==
    /\ NoUpdateRunning
    /\ wCount.made >= 2
    /\ \E p, q \in Getters :
        /\ wpc[p] = "done"
        /\ gRet[p] # NoData
        /\ gRet[p].by = weather.id
        /\ gRet[q] # NoData
        /\ gRet[q].by # weather.id

(***************************************************************************)
(* Properties of the inverter configuration update.                        *)
(***************************************************************************)
\* no inverter configuration update request is being served
AllAnswered == \A r \in Requesters : hpc[r] \in {"idle", "done"}

\* C35: when no update request is being served s.config.Inverter has the
\* parameters of the collector's active link.
C35_ConfigIsActiveLink == AllAnswered => hConfig = hActive

(***************************************************************************)
(* Properties of the locks.                                                *)
(***************************************************************************)
\* the order the locks are nested in: a lock is asked for only by a holder of
\* locks that come before it
LockRank ==
    [l \in Locks |-> IF l \in {"mu", "weatherMu"} THEN 1 ELSE 2]

\* C37: a process that asks for a lock holds only locks of a lower rank, so
\* no cycle of holders and waiters can form; as long as a call is under way
\* some process can take a step; and no process waits for a lock for ever,
\* the calls inside the locks returning and the locks serving their waiters.
C37_NoDeadlock ==
    /\ [](\A p \in LockUsers :
            Waiting(p) =>
                \A h \in Held(p) : LockRank[h] < LockRank[Instr(p)[2]])
    /\ []((\E p \in LockUsers : Running(p)) =>
              (\E p \in LockUsers : ENABLED LockStep(p)))
    /\ \A p \in LockUsers : []<>(~Waiting(p))

\* initWeatherProvider holds the weather lock and is queued for the read of
\* the configuration behind a writer, with an insight request waiting for the
\* weather lock
C37_Witness ==
    /\ lkW["weatherMu"] = "wupd"
    /\ "wupd" \in lkRq["configMutex"]
    /\ lkW["configMutex"] = "upd"
    /\ Waiting("insight")
    /\ Instr("insight")[2] = "weatherMu"

====
